---- MODULE Spec2Model ----
(***************************************************************************)
(* Model of the CLOONEY inference / refinement core:                       *)
(*   - refinement_engine.py   (response normalisation, diff, patches)      *)
(*   - self_improving_agent.py (quality score, convergence loop)           *)
(*   - network_parser.py      (endpoint identity normalisation)            *)
(*                                                                         *)
(* JSON values are tagged records [t, v, f]: t is the Python type of the   *)
(* value ("obj" for dict, "int", "str", ...), v an integer code of a       *)
(* scalar, f the key -> value map of a dict.  Floats are exact rationals   *)
(* [n, d].  Python strings that the code inspects character by character   *)
(* are sequences of one-character strings.                                 *)
(***************************************************************************)
EXTENDS Integers, Sequences, FiniteSets, TLC

VARIABLES
    qpc,        \* position of the quality-score harness: "input" | "scored"
    qExpected,  \* argument `expected` of _calculate_quality_score
    qActual,    \* argument `actual` of _calculate_quality_score
    qScore,     \* value returned by _calculate_quality_score
    upc,        \* position of the URL harness: "input" | "normalized"
    uMethod,    \* request method of both captured messages
    uUrl1,      \* raw URL of the first captured message
    uUrl2,      \* raw URL of the second captured message
    uKey1,      \* endpoint_key extract_endpoints builds for uUrl1
    uKey2,      \* endpoint_key extract_endpoints builds for uUrl2
    uAgain,     \* normalize_url of the normalized path of uUrl1
    apc,        \* position of the classification harness: "input" | "classified"
    aUrl,       \* argument `url` of is_api_endpoint
    aRequest,   \* argument `request` of is_api_endpoint
    aResponse,  \* argument `response` of is_api_endpoint
    aResult,    \* value returned by is_api_endpoint
    mpc,        \* position of the schema harness: "input" | "merged"
    mSamples,   \* three observed samples of one endpoint, in arrival order
    mA,         \* infer_schema_from_data of the first sample
    mB,         \* infer_schema_from_data of the second sample
    mC,         \* infer_schema_from_data of the third sample
    mAB,        \* merge_schemas(mA, mB)
    mBC,        \* merge_schemas(mB, mC)
    mLeft,      \* merge_schemas(merge_schemas(mA, mB), mC), the left fold
    mRight,     \* merge_schemas(mA, merge_schemas(mB, mC))
    npc,        \* position of the normalisation harness: "input" | "normalized"
    nResponse,  \* argument `response` of _normalize_response
    nGiven,     \* history variable: the argument as it was at the call
    nResult,    \* value returned by _normalize_response
    rpc,        \* position of the analysis harness: "input" | "compared" | "analyzed"
    rExpected,  \* expected response of the endpoint
    rActual,    \* actual response of the clone
    rAi,        \* AI_AVAILABLE: the rule agent module was imported
    rOracle,    \* what the Gemini client does on the call
    rDiff,      \* differences returned by _compare_responses
    rResult,    \* value returned by _analyze_single_result, or Raised
    rChanges,   \* patches["openapi_changes"] of generate_schema_patches
    ppc,    \* position of the patch harness: "called" | "applying" | "returned" | "raised"
    pData,    \* the object passed as parsed_data, as it is now
    pGiven,    \* history variable: parsed_data as it was at the call
    pChanges,    \* patches["openapi_changes"]
    pUpdated,    \* updated_data
    pShared,    \* updated_data is the object passed as parsed_data
    pLeft,    \* changes the loop over openapi_changes has not reached yet
    pResult,    \* value returned by apply_patches
    epc,    \* position of the relationship harness: "input" | "detected"
    eSchemas,    \* self.schemas, in insertion order
    eRelationships,    \* value returned by get_entity_relationships
    eReversed,    \* the value returned when the endpoints are processed in reverse order
    spc,    \* position of the persistence harness: "input" | "analyzed" | "saved" | "loaded" | "raised"
    sCapture,    \* the endpoints of the capture, each with its response samples
    sModel,    \* parsed_data as analyze returned it
    sFile,    \* the document in parsed_endpoints.json
    sLoaded,    \* parsed_data as json.load returned it
    dDb,    \* the tables of the generated server
    dBefore,    \* the tables before the last request
    dRequest,    \* the last request
    dStatus,    \* the status of the last response
    dClock,    \* the time of the last request
    fpc,    \* position of the format harness
    fData,    \* the value whose schema is inferred
    fSchema,    \* the schema inferred from fData
    pc,                 \* position of SelfImprovingAgent.run
    max_iterations,     \* self.max_iterations
    quality_threshold,  \* self.quality_threshold
    iteration,          \* self.iteration
    run_i,              \* loop variable i of run: iterations completed so far
    history,            \* self.history
    iteration_result,   \* the record run_iteration is building
    file,               \* parsed_endpoints.json: [state, data]
    capture,            \* what parser.analyze() does on the capture: [ok, data]
    parsed_data,        \* parsed_data['endpoints'] of the running iteration
    expected_responses, \* expected_responses of the running iteration
    test_endpoints,     \* test_endpoints of the running iteration
    tc,                 \* index of the next test case to probe
    actual_responses,   \* actual_responses of the running iteration
    quality_scores,     \* quality_scores of the running iteration
    final_report,       \* value run returns, <<>> before
    probes,             \* history variable: per test case, the calls of
                        \*   _test_clone_endpoint and their results
    outcomes,           \* history variable: per iteration, how it ended
    loaded              \* history variable: per iteration, the model loaded
                        \*   in Parsing and the changes Refining generated

qvars == <<qpc, qExpected, qActual, qScore>>

uvars == <<upc, uMethod, uUrl1, uUrl2, uKey1, uKey2, uAgain>>

config == <<max_iterations, quality_threshold, capture>>

locals == <<parsed_data, expected_responses, test_endpoints, tc,
            actual_responses, quality_scores, probes>>

lvars == <<pc, config, iteration, run_i, history, iteration_result, file, locals,
           final_report, outcomes, loaded>>

avars == <<apc, aUrl, aRequest, aResponse, aResult>>

mvars == <<mpc, mSamples, mA, mB, mC, mAB, mBC, mLeft, mRight>>

nvars == <<npc, nResponse, nGiven, nResult>>

rvars == <<rpc, rExpected, rActual, rAi, rOracle, rDiff, rResult, rChanges>>

pvars == <<ppc, pData, pGiven, pChanges, pUpdated, pShared, pLeft, pResult>>

evars == <<epc, eSchemas, eRelationships, eReversed>>

svars == <<spc, sCapture, sModel, sFile, sLoaded>>

dvars == <<dDb, dBefore, dRequest, dStatus, dClock>>

fvars == <<fpc, fData, fSchema>>

vars == <<qvars, uvars, lvars, avars, mvars, nvars, rvars, pvars, evars, svars, dvars, fvars>>

\* What a step of one part of the state leaves alone.
notQ == <<uvars, lvars, avars, mvars, nvars, rvars, pvars, evars, svars, dvars, fvars>>

notU == <<qvars, lvars, avars, mvars, nvars, rvars, pvars, evars, svars, dvars, fvars>>

notL == <<qvars, uvars, avars, mvars, nvars, rvars, pvars, evars, svars, dvars, fvars>>

notA == <<qvars, uvars, lvars, mvars, nvars, rvars, pvars, evars, svars, dvars, fvars>>

notM == <<qvars, uvars, lvars, avars, nvars, rvars, pvars, evars, svars, dvars, fvars>>

notN == <<qvars, uvars, lvars, avars, mvars, rvars, pvars, evars, svars, dvars, fvars>>

notR == <<qvars, uvars, lvars, avars, mvars, nvars, pvars, evars, svars, dvars, fvars>>

notP == <<qvars, uvars, lvars, avars, mvars, nvars, rvars, evars, svars, dvars, fvars>>

notE == <<qvars, uvars, lvars, avars, mvars, nvars, rvars, pvars, svars, dvars, fvars>>

notS == <<qvars, uvars, lvars, avars, mvars, nvars, rvars, pvars, evars, dvars, fvars>>

notD == <<qvars, uvars, lvars, avars, mvars, nvars, rvars, pvars, evars, svars, fvars>>

notF == <<qvars, uvars, lvars, avars, mvars, nvars, rvars, pvars, evars, svars, dvars>>

(***************************************************************************)
(* Bounds of the model.                                                    *)
(***************************************************************************)
MaxInt == 2          \* integer scalars are 1..MaxInt

MaxSegs == 2         \* a URL path has 1..MaxSegs segments after its prefix

MaxIterations == 2   \* the iteration budget is 1..MaxIterations

MaxEndpoints == 1    \* the schema model has 0..MaxEndpoints endpoints

(***************************************************************************)
(* JSON values.                                                            *)
(***************************************************************************)
NoFields == [k \in {} |-> 0]

JInt(i) == [t |-> "int", v |-> i, f |-> NoFields]

JStr(i) == [t |-> "str", v |-> i, f |-> NoFields]

JObj(fields) == [t |-> "obj", v |-> 0, f |-> fields]

JNull == [t |-> "null", v |-> 0, f |-> NoFields]

JBool(b) == [t |-> "bool", v |-> b, f |-> NoFields]

\* A list: f is the sequence of its items.
JList(items) == [t |-> "list", v |-> 0, f |-> items]

IsList(x) == x.t = "list"

IsDict(x) == x.t = "obj"

\* Python truthiness of a JSON value: {} and "" are falsy.
Truthy(x) ==
    IF x.t = "obj" THEN DOMAIN x.f # {}
    ELSE IF x.t = "str" THEN x.v # 0
    ELSE IF x.t = "int" THEN x.v # 0
    ELSE IF x.t = "null" THEN FALSE
    ELSE TRUE

\* Sum of g[k] over the keys of a function with natural-number values.
RECURSIVE SumOver(_, _)
SumOver(g, S) ==
    IF S = {} THEN 0
    ELSE LET k == CHOOSE k \in S : TRUE
         IN  g[k] + SumOver(g, S \ {k})

(***************************************************************************)
(* refinement_engine.py: RefinementEngine._normalize_response              *)
(***************************************************************************)
VolatileKeys ==
    {"created_at", "updated_at", "modified_at", "timestamp",
     "id", "gid", "__creationTime", "__modificationTime"}

RECURSIVE normalize_response(_)
normalize_response(response) ==
    IF ~IsDict(response) THEN response
    ELSE JObj([key \in (DOMAIN response.f) \ VolatileKeys |->
                 IF IsDict(response.f[key])
                 THEN normalize_response(response.f[key])
                 ELSE IF IsList(response.f[key])
                 THEN JList([k \in 1..Len(response.f[key].f) |->
                                IF IsDict(response.f[key].f[k])
                                THEN normalize_response(response.f[key].f[k])
                                ELSE response.f[key].f[k]])
                 ELSE response.f[key]])

(***************************************************************************)
(* DeepDiff(expected_norm, actual_norm, ignore_order=True,                 *)
(* verbose_level=0) as called by _compare_responses.  t1 is the expected   *)
(* value and t2 the actual one.  A path is the sequence of keys from the   *)
(* root.  Each category is the set of paths reported under it.             *)
(***************************************************************************)
RECURSIVE type_changes(_, _, _)
type_changes(t1, t2, path) ==
    IF t1.t # t2.t THEN {path}
    ELSE IF t1.t = "obj"
    THEN UNION { type_changes(t1.f[k], t2.f[k], Append(path, k)) :
                    k \in (DOMAIN t1.f) \cap (DOMAIN t2.f) }
    ELSE {}

RECURSIVE values_changed(_, _, _)
values_changed(t1, t2, path) ==
    IF t1.t # t2.t THEN {}
    ELSE IF t1.t = "obj"
    THEN UNION { values_changed(t1.f[k], t2.f[k], Append(path, k)) :
                    k \in (DOMAIN t1.f) \cap (DOMAIN t2.f) }
    ELSE IF t1.v # t2.v THEN {path} ELSE {}

RECURSIVE dictionary_item_added(_, _, _)
dictionary_item_added(t1, t2, path) ==
    IF t1.t # t2.t \/ t1.t # "obj" THEN {}
    ELSE { Append(path, k) : k \in (DOMAIN t2.f) \ (DOMAIN t1.f) }
         \cup UNION { dictionary_item_added(t1.f[k], t2.f[k], Append(path, k)) :
                         k \in (DOMAIN t1.f) \cap (DOMAIN t2.f) }

RECURSIVE dictionary_item_removed(_, _, _)
dictionary_item_removed(t1, t2, path) ==
    IF t1.t # t2.t \/ t1.t # "obj" THEN {}
    ELSE { Append(path, k) : k \in (DOMAIN t1.f) \ (DOMAIN t2.f) }
         \cup UNION { dictionary_item_removed(t1.f[k], t2.f[k], Append(path, k)) :
                         k \in (DOMAIN t1.f) \cap (DOMAIN t2.f) }

DeepDiff(t1, t2) ==
    [type_changes            |-> type_changes(t1, t2, <<>>),
     dictionary_item_added   |-> dictionary_item_added(t1, t2, <<>>),
     dictionary_item_removed |-> dictionary_item_removed(t1, t2, <<>>),
     values_changed          |-> values_changed(t1, t2, <<>>)]

\* The categories of a diff result that to_dict() contains: the non-empty ones.
DiffCategories(diff) == { c \in DOMAIN diff : diff[c] # {} }

\* Python type of the value stored under a category at verbose_level=0:
\* the item added/removed categories are ordered sets, the others dicts.
DiffValueType(c) ==
    IF c \in {"dictionary_item_added", "dictionary_item_removed"}
    THEN "set" ELSE "dict"

(***************************************************************************)
(* refinement_engine.py: RefinementEngine._compare_responses               *)
(***************************************************************************)
compare_responses(expected, actual) ==
    DeepDiff(normalize_response(expected), normalize_response(actual))

(***************************************************************************)
(* self_improving_agent.py: SelfImprovingAgent._calculate_quality_score    *)
(***************************************************************************)
Rat(n, d) == [n |-> n, d |-> d]

\* count_fields: the `value` the closure tests is the loop variable left
\* over from the difference count, never a list for a DeepDiff result, so
\* every non-dict object counts 1.
RECURSIVE count_fields(_)
count_fields(obj) ==
    IF IsDict(obj)
    THEN SumOver([k \in DOMAIN obj.f |-> 1 + count_fields(obj.f[k])], DOMAIN obj.f)
    ELSE 1

total_diffs_of(differences) ==
    SumOver([c \in DiffCategories(differences) |->
                IF DiffValueType(c) \in {"list", "dict"}
                THEN Cardinality(differences[c])
                ELSE 1],
            DiffCategories(differences))

calculate_quality_score(expected, actual) ==
    IF ~IsDict(expected) \/ ~IsDict(actual) THEN Rat(0, 1)
    ELSE LET differences  == compare_responses(expected, actual)
             total_diffs  == total_diffs_of(differences)
             total_fields == count_fields(expected)
         IN  IF DiffCategories(differences) = {} THEN Rat(1, 1)
             ELSE IF total_fields = 0 THEN Rat(1, 1)
             ELSE IF total_diffs >= total_fields THEN Rat(0, 1)
             ELSE Rat(total_fields - total_diffs, total_fields)

(***************************************************************************)
(* The schema model (parsed_data).  `endpoints` is an insertion-ordered     *)
(* dict, here a sequence of [key, info] with distinct keys.  An endpoint   *)
(* key is a Python string split at its separators " ", "/" and "_", each   *)
(* separator being one element; info.responses is either the list of       *)
(* {status, body} samples the parser writes or the dict status -> schema   *)
(* the WebSocket integration writes.  A status key is [t, v] so that the   *)
(* int keys of Python and the str keys of JSON are told apart.             *)
(***************************************************************************)
Raised == [raised |-> TRUE, val |-> 0]

Ok(x) == [raised |-> FALSE, val |-> x]

ListResponses(samples) == [fmt |-> "list", list |-> samples, dict |-> NoFields]

DictResponses(byStatus) == [fmt |-> "dict", list |-> <<>>, dict |-> byStatus]

StrKey(status) == [t |-> "str", v |-> status]

IntKey(status) == [t |-> "int", v |-> status]

\* Codes of the string constants that occur as JSON string values.
StrCode ==
    [object |-> 11, string |-> 12, integer |-> 13, boolean |-> 14,
     number |-> 15, array |-> 16]

\* Codes of the Python classes of JSON values.
ClassCode == [obj |-> 21, int |-> 22, str |-> 23, bool |-> 24, null |-> 25]

\* The Python class of x, as DeepDiff reports it in type_changes (new_type),
\* and its __name__ as a string.
PyClass(x) == [t |-> "pytype", v |-> ClassCode[x.t], f |-> NoFields]

ClassName(x) == JStr(ClassCode[x.t])

\* The first index of a key in an ordered dict, 0 when absent.
IndexOf(pairs, key) ==
    LET hits == { i \in 1..Len(pairs) : pairs[i].key = key }
    IN  IF hits = {} THEN 0 ELSE CHOOSE i \in hits : \A j \in hits : i <= j

\* dict.get(key, default) on an ordered dict of [key, val] pairs.
Get(pairs, key, default) ==
    IF IndexOf(pairs, key) = 0 THEN default ELSE pairs[IndexOf(pairs, key)].val

\* A set as a sequence, in a fixed order.
RECURSIVE SetToSeq(_)
SetToSeq(S) ==
    IF S = {} THEN <<>>
    ELSE LET x == CHOOSE x \in S : TRUE
         IN  <<x>> \o SetToSeq(S \ {x})

\* The value found in x by following a path of keys.
RECURSIVE ValueAt(_, _)
ValueAt(x, path) ==
    IF path = <<>> THEN x ELSE ValueAt(x.f[Head(path)], Tail(path))

(***************************************************************************)
(* refinement_engine.py: RefinementEngine.extract_expected_from_capture    *)
(***************************************************************************)
ExpectedOf(info) ==
    LET responses == info.responses
    IN  IF responses.fmt = "list"
        THEN responses.list[1].body
        ELSE LET first_response ==
                     responses.dict[CHOOSE st \in DOMAIN responses.dict : TRUE]
             IN  IF IsDict(first_response) /\ "body" \in DOMAIN first_response.f
                 THEN first_response.f["body"]
                 ELSE first_response

HasResponses(info) ==
    IF info.responses.fmt = "list"
    THEN info.responses.list # <<>>
    ELSE DOMAIN info.responses.dict # {}

RECURSIVE extract_expected_from_capture(_)
extract_expected_from_capture(endpoints) ==
    IF endpoints = <<>> THEN <<>>
    ELSE (IF HasResponses(Head(endpoints).info)
          THEN << [key |-> Head(endpoints).key,
                   val |-> ExpectedOf(Head(endpoints).info)] >>
          ELSE <<>>)
         \o extract_expected_from_capture(Tail(endpoints))

(***************************************************************************)
(* The DeepDiff path string of a path ("root['name']"), and the field name *)
(* the rule agent's fallback cuts out of it (the last key, or "root").     *)
(***************************************************************************)
PathStrTable ==
    (<<"name">> :> "root['name']") @@ (<<"done">> :> "root['done']")
    @@ (<<"type">> :> "root['type']") @@ (<<"properties">> :> "root['properties']")
    @@ (<<"properties", "name">> :> "root['properties']['name']")
    @@ (<<"properties", "done">> :> "root['properties']['done']")

PathStr(path) ==
    IF path = <<>> THEN "root"
    ELSE IF path \in DOMAIN PathStrTable THEN PathStrTable[path]
    ELSE "root[...]"

FieldName(path) == IF path = <<>> THEN "root" ELSE path[Len(path)]

Fix(action, field, value) == [action |-> action, field |-> field, value |-> value]

NoValue == [t |-> "null", v |-> 0, f |-> NoFields]

(***************************************************************************)
(* ai/rule_refinement_agent.py: _fallback_rule_inference                   *)
(***************************************************************************)
fallback_rule_inference(diff_report, expected_spec, actual_response) ==
    IF diff_report.dictionary_item_added # {}
    THEN Raised     \* an ordered set has no .items()
    ELSE Ok([i \in 1..Cardinality(diff_report.dictionary_item_removed) |->
                Fix("remove_field",
                    FieldName(SetToSeq(diff_report.dictionary_item_removed)[i]),
                    NoValue)]
            \o [i \in 1..Cardinality(diff_report.values_changed) |->
                  LET path == SetToSeq(diff_report.values_changed)[i]
                  IN  Fix("update_field_value", FieldName(path),
                          ValueAt(normalize_response(actual_response), path))]
            \o [i \in 1..Cardinality(diff_report.type_changes) |->
                  LET path == SetToSeq(diff_report.type_changes)[i]
                  IN  Fix("update_field_type", FieldName(path),
                          ClassName(ValueAt(normalize_response(actual_response), path)))])

(***************************************************************************)
(* ai/rule_refinement_agent.py: infer_rules_from_internal_diffs.  `oracle` *)
(* is what the Gemini client does on this call: "disabled" (no API key or  *)
(* no client), "raise", or "patches" with the list `patches` made of what   *)
(* structured_call returned: the list itself, the "patches" entry of a     *)
(* dict, the one-item list of another truthy result, [] for a falsy one.   *)
(***************************************************************************)
infer_rules_from_internal_diffs(diff_report, expected_spec, actual_response, oracle) ==
    IF oracle.kind = "disabled"
    THEN fallback_rule_inference(diff_report, expected_spec, actual_response)
    ELSE IF oracle.kind = "raise"
    THEN fallback_rule_inference(diff_report, expected_spec, actual_response)
    ELSE Ok(oracle.patches)

(***************************************************************************)
(* refinement_engine.py: RefinementEngine._analyze_single_result           *)
(***************************************************************************)
heuristic_analysis(endpoint, differences, actual) ==
    IF differences.dictionary_item_added # {}
    THEN Raised     \* an ordered set has no .items()
    ELSE LET fixes ==
                 [i \in 1..Cardinality(differences.dictionary_item_removed) |->
                     Fix("remove_field",
                         PathStr(SetToSeq(differences.dictionary_item_removed)[i]),
                         NoValue)]
                 \o [i \in 1..Cardinality(differences.values_changed) |->
                       LET path == SetToSeq(differences.values_changed)[i]
                       IN  Fix("update_field", PathStr(path),
                               ValueAt(normalize_response(actual), path))]
                 \o [i \in 1..Cardinality(differences.type_changes) |->
                       LET path == SetToSeq(differences.type_changes)[i]
                       IN  Fix("fix_type", PathStr(path),
                               PyClass(ValueAt(normalize_response(actual), path)))]
         IN  IF fixes = <<>> THEN Ok(<<>>)     \* no issues: returns None
             ELSE Ok(<< [endpoint |-> endpoint, fixes |-> fixes] >>)

\* A patch of the oracle is a dict (a record of its keys) or another JSON
\* value; patch.get(...) raises on the latter.
PatchIsDict(patch) == "t" \notin DOMAIN patch

\* The rule agent returned (`if ai_patches`) and the conversion loop over
\* its patches raised nothing.
PatchesUsable(ai_patches) ==
    /\ ~ai_patches.raised
    /\ ai_patches.val # <<>>
    /\ \A k \in 1..Len(ai_patches.val) : PatchIsDict(ai_patches.val[k])

\* The result is Raised, or the list holding the suggestion (empty for None).
\* An exception of the rule agent or of patch.get is caught by the except
\* clause and the heuristics run.
analyze_single_result(endpoint, differences, expected, actual, ai_available, oracle) ==
    LET ai_patches ==
            infer_rules_from_internal_diffs(differences, expected, actual, oracle)
    IN  IF ai_available /\ PatchesUsable(ai_patches)
        THEN Ok(<< [endpoint |-> endpoint, fixes |-> ai_patches.val] >>)
        ELSE heuristic_analysis(endpoint, differences, actual)

(***************************************************************************)
(* refinement_engine.py: RefinementEngine.analyze_differences.  The result *)
(* is the list of suggestions, or Raised when a suggestion raises.         *)
(***************************************************************************)
MissingResponse(endpoint_name) ==
    [endpoint |-> endpoint_name,
     fixes |-> << Fix("implement_endpoint", "", NoValue) >>]

HasDifferences(differences) == DiffCategories(differences) # {}

RECURSIVE analyze_differences(_, _, _, _)
analyze_differences(expecteds, actuals, ai_available, oracle) ==
    IF expecteds = <<>> THEN Ok(<<>>)
    ELSE LET endpoint_name == Head(expecteds).key
             expected      == Head(expecteds).val
             actual        == Get(actuals, endpoint_name, JObj(NoFields))
             differences   == compare_responses(expected, actual)
             suggestion    ==
                 IF ~Truthy(actual) THEN Ok(<< MissingResponse(endpoint_name) >>)
                 ELSE IF ~HasDifferences(differences) THEN Ok(<<>>)
                 ELSE LET r == analyze_single_result(endpoint_name, differences,
                                   expected, actual, ai_available, oracle)
                      IN  r
             rest == analyze_differences(Tail(expecteds),
                         actuals, ai_available, oracle)
         IN  IF suggestion.raised THEN Raised
             ELSE IF rest.raised THEN Raised
             ELSE Ok(suggestion.val \o rest.val)

(***************************************************************************)
(* refinement_engine.py: RefinementEngine._infer_type and                  *)
(* RefinementEngine.generate_schema_patches (the openapi_changes list)     *)
(***************************************************************************)
infer_type(value) ==
    IF value.t = "bool" THEN JStr(StrCode.boolean)
    ELSE IF value.t = "int" THEN JStr(StrCode.integer)
    ELSE IF value.t = "float" THEN JStr(StrCode.number)
    ELSE IF value.t = "list" THEN JStr(StrCode.array)
    ELSE IF value.t = "obj" THEN JStr(StrCode.object)
    ELSE JStr(StrCode.string)

Change(endpoint, action, field, type) ==
    [endpoint |-> endpoint, action |-> action, field |-> field, type |-> type]

RECURSIVE ChangesOfFixes(_, _)
ChangesOfFixes(endpoint, fixes) ==
    IF fixes = <<>> THEN <<>>
    ELSE LET fix == Head(fixes)
             action == IF "action" \in DOMAIN fix THEN fix.action ELSE "None"
         IN  (IF action = "add_field"
              THEN << Change(endpoint, "add_property", fix.field, infer_type(fix.value)) >>
              ELSE IF action = "remove_field"
              THEN << Change(endpoint, "remove_property", fix.field, NoValue) >>
              ELSE IF action = "fix_type"
              THEN << Change(endpoint, "update_property_type", fix.field, fix.value) >>
              ELSE <<>>)
             \o ChangesOfFixes(endpoint, Tail(fixes))

RECURSIVE generate_schema_patches(_)
generate_schema_patches(suggestions) ==
    IF suggestions = <<>> THEN <<>>
    ELSE ChangesOfFixes(Head(suggestions).endpoint, Head(suggestions).fixes)
         \o generate_schema_patches(Tail(suggestions))

(***************************************************************************)
(* json.loads(json.dumps(x)): the status keys of a dict become strings.    *)
(* json.dumps raises on a Python class.                                    *)
(***************************************************************************)
RECURSIVE Serializable(_)
Serializable(x) ==
    /\ x.t # "pytype"
    /\ \A k \in DOMAIN x.f : Serializable(x.f[k])

InfoSerializable(info) ==
    /\ \A i \in 1..Len(info.responses.list) : Serializable(info.responses.list[i].body)
    /\ \A st \in DOMAIN info.responses.dict : Serializable(info.responses.dict[st])

DataSerializable(endpoints) ==
    \A i \in 1..Len(endpoints) : InfoSerializable(endpoints[i].info)

RoundTripInfo(info) ==
    [info EXCEPT !.responses.dict =
        [st \in { StrKey(k.v) : k \in DOMAIN info.responses.dict } |->
            info.responses.dict[CHOOSE k \in DOMAIN info.responses.dict : k.v = st.v]]]

JsonRoundTripLossy(endpoints) == <<>>

JsonRoundTrip(endpoints) ==
    [i \in 1..Len(endpoints) |->
        [key |-> endpoints[i].key, info |-> RoundTripInfo(endpoints[i].info)]]

(***************************************************************************)
(* refinement_engine.py: RefinementEngine.apply_patches                    *)
(***************************************************************************)
\* `endpoint in endpoint_key`: endpoint occurs in endpoint_key as a substring.
Contains(endpoint_key, endpoint) ==
    \E i \in 0..(Len(endpoint_key) - Len(endpoint)) :
        SubSeq(endpoint_key, i + 1, i + Len(endpoint)) = endpoint

\* The change applied to one response schema.
ApplyToSchema(schema, change) ==
    IF ~(IsDict(schema) /\ "properties" \in DOMAIN schema.f) THEN Ok(schema)
    ELSE LET properties == schema.f["properties"]
             field == change.field
             WithProps(p) == JObj([schema.f EXCEPT !["properties"] = JObj(p)])
         IN  IF change.action = "add_property"
             THEN IF ~IsDict(properties) THEN Raised
                  ELSE Ok(WithProps((field :> JObj("type" :> change.type))
                                    @@ properties.f))
             ELSE IF change.action = "remove_property"
             THEN IF ~IsDict(properties) THEN Raised
                  ELSE Ok(WithProps([k \in (DOMAIN properties.f) \ {field} |->
                                        properties.f[k]]))
             ELSE IF change.action = "update_property_type"
             THEN IF ~IsDict(properties) THEN Raised
                  ELSE IF field \notin DOMAIN properties.f THEN Ok(schema)
                  ELSE IF ~IsDict(properties.f[field]) THEN Raised
                  ELSE Ok(WithProps([properties.f EXCEPT ![field] =
                              JObj(("type" :> change.type) @@ properties.f[field].f)]))
             ELSE Ok(schema)

\* The change applied to one endpoint of updated_data.
ApplyToEndpoint(entry, change) ==
    IF ~Contains(entry.key, change.endpoint) THEN Ok(entry)
    ELSE IF entry.info.responses.fmt = "list" THEN Raised  \* a list has no .items()
    ELSE LET byStatus == entry.info.responses.dict
             patched == [st \in DOMAIN byStatus |-> ApplyToSchema(byStatus[st], change)]
         IN  IF \E st \in DOMAIN byStatus : patched[st].raised THEN Raised
             ELSE Ok([entry EXCEPT !.info.responses.dict =
                         [st \in DOMAIN byStatus |-> patched[st].val]])

ApplyChange(endpoints, change) ==
    LET patched == [i \in 1..Len(endpoints) |-> ApplyToEndpoint(endpoints[i], change)]
    IN  IF \E i \in 1..Len(endpoints) : patched[i].raised THEN Raised
        ELSE Ok([i \in 1..Len(endpoints) |-> patched[i].val])

RECURSIVE ApplyChanges(_, _)
ApplyChanges(endpoints, changes) ==
    IF changes = <<>> THEN Ok(endpoints)
    ELSE LET r == ApplyChange(endpoints, Head(changes))
         IN  IF r.raised THEN Raised ELSE ApplyChanges(r.val, Tail(changes))

apply_patches(openapi_changes, data) ==
    IF ~DataSerializable(data) THEN Raised
    ELSE ApplyChanges(JsonRoundTrip(data), openapi_changes)

(***************************************************************************)
(* Exact arithmetic on the floats of the agent.                            *)
(***************************************************************************)
RECURSIVE GCD(_, _)
GCD(a, b) == IF b = 0 THEN a ELSE GCD(b, a % b)

Norm(r) == IF r.n = 0 THEN Rat(0, 1)
           ELSE Rat(r.n \div GCD(r.n, r.d), r.d \div GCD(r.n, r.d))

RatAdd(a, b) == Norm(Rat(a.n * b.d + b.n * a.d, a.d * b.d))

RatLess(a, b) == a.n * b.d < b.n * a.d

RECURSIVE RatSum(_)
RatSum(scores) ==
    IF scores = <<>> THEN Rat(0, 1) ELSE RatAdd(Head(scores), RatSum(Tail(scores)))

\* sum(quality_scores) / len(quality_scores) if quality_scores else 0.0
Average(scores) ==
    IF scores = <<>> THEN Rat(0, 1)
    ELSE Norm(Rat(RatSum(scores).n, RatSum(scores).d * Len(scores)))

(***************************************************************************)
(* self_improving_agent.py: SelfImprovingAgent.run_iteration, Step 3: the  *)
(* probe set.                                                              *)
(***************************************************************************)
FixedTestEndpoints ==
    << [name   |-> <<"list", "_", "workspaces">>, method |-> "GET",
        path   |-> <<"/", "api", "/", "1.0", "/", "workspaces">>],
       [name   |-> <<"list", "_", "projects">>, method |-> "GET",
        path   |-> <<"/", "api", "/", "1.0", "/", "projects">>],
       [name   |-> <<"list", "_", "tasks">>, method |-> "GET",
        path   |-> <<"/", "api", "/", "1.0", "/", "tasks">>] >>

\* ep_key.replace(' ', '_').replace('/', '_')
EndpointName(ep_key) ==
    [j \in 1..Len(ep_key) |-> IF ep_key[j] \in {" ", "/"} THEN "_" ELSE ep_key[j]]

RECURSIVE ParsedTestEndpoints(_)
ParsedTestEndpoints(endpoints) ==
    IF endpoints = <<>> THEN <<>>
    ELSE LET ep_key  == Head(endpoints).key
             ep_info == Head(endpoints).info
         IN  (IF ep_info.methods # <<>>
              THEN << [name   |-> EndpointName(ep_key),
                       method |-> ep_info.methods[1],
                       path   |-> IF ep_info.path # <<>> THEN ep_info.path
                                  ELSE ep_key] >>
              ELSE <<>>)
             \o ParsedTestEndpoints(Tail(endpoints))

TestEndpoints(endpoints) ==
    FixedTestEndpoints
        \o ParsedTestEndpoints(SubSeq(endpoints, 1, IF Len(endpoints) < 3
                                                    THEN Len(endpoints) ELSE 3))

(***************************************************************************)
(* self_improving_agent.py: SelfImprovingAgent._test_clone_endpoint.       *)
(* `server` is what the clone does with the request: it raises (timeout,   *)
(* connection failure, import or decoding error) or answers with a status  *)
(* and a body.  The result has an "error" key or a "body" key.             *)
(***************************************************************************)
SupportedMethods == {"GET", "POST", "PUT", "DELETE"}

test_clone_endpoint(method, path, server) ==
    IF method \notin SupportedMethods
    THEN [error |-> TRUE, sent |-> 0, status_code |-> 0, body |-> NoValue]
    ELSE IF server.raises
    THEN [error |-> TRUE, sent |-> server.sent, status_code |-> 0, body |-> NoValue]
    ELSE [error |-> FALSE, sent |-> 1, status_code |-> server.status,
          body |-> server.body]

(***************************************************************************)
(* self_improving_agent.py: SelfImprovingAgent._generate_final_report      *)
(***************************************************************************)
HasTesting(h) == "testing" \in DOMAIN h.steps

\* h.get('steps', {}).get('testing', {}).get('average_quality', 0)
RecordedQuality(h) ==
    IF HasTesting(h) /\ "average_quality" \in DOMAIN h.steps["testing"]
    THEN h.steps["testing"].average_quality
    ELSE Rat(0, 1)

ConvergedNever(h) == FALSE

\* result.get('converged', False)
Converged(h) == IF "converged" \in DOMAIN h THEN h.converged ELSE FALSE

RECURSIVE Trajectory(_)
Trajectory(hist) ==
    IF hist = <<>> THEN <<>>
    ELSE (IF HasTesting(Head(hist))
          THEN << [iteration |-> Head(hist).iteration,
                   quality   |-> RecordedQuality(Head(hist))] >>
          ELSE <<>>)
         \o Trajectory(Tail(hist))

generate_final_report(hist) ==
    IF hist = <<>> THEN [error |-> "No iterations completed"]
    ELSE [total_iterations       |-> Len(hist),
          converged              |-> Converged(hist[Len(hist)]),
          final_quality          |-> RecordedQuality(hist[Len(hist)]),
          improvement_trajectory |-> Trajectory(hist)]

(***************************************************************************)
(* The three parts of the state, each at rest: the agent before run, the   *)
(* scorer and the URL normaliser before they are given an input.           *)
(***************************************************************************)
LIdle ==
    /\ pc = "idle"
    /\ max_iterations = 0
    /\ quality_threshold = Rat(0, 1)
    /\ capture = [ok |-> FALSE, data |-> <<>>]
    /\ iteration = 0
    /\ run_i = 0
    /\ history = <<>>
    /\ iteration_result = <<>>
    /\ file = [state |-> "absent", data |-> <<>>]
    /\ parsed_data = <<>>
    /\ expected_responses = <<>>
    /\ test_endpoints = <<>>
    /\ tc = 0
    /\ actual_responses = <<>>
    /\ quality_scores = <<>>
    /\ probes = <<>>
    /\ final_report = <<>>
    /\ outcomes = <<>>
    /\ loaded = <<>>

QIdle ==
    /\ qpc = "idle"
    /\ qExpected = JObj(NoFields)
    /\ qActual = JObj(NoFields)
    /\ qScore = Rat(0, 1)

UIdle ==
    /\ upc = "idle"
    /\ uMethod = <<>>
    /\ uUrl1 = <<>>
    /\ uUrl2 = <<>>
    /\ uKey1 = <<>>
    /\ uKey2 = <<>>
    /\ uAgain = <<>>

AIdle ==
    /\ apc = "idle"
    /\ aUrl = <<>>
    /\ aRequest = [given |-> FALSE]
    /\ aResponse = [given |-> FALSE]
    /\ aResult = FALSE

MIdle ==
    /\ mpc = "idle"
    /\ mSamples = <<>>
    /\ mA = <<>>
    /\ mB = <<>>
    /\ mC = <<>>
    /\ mAB = <<>>
    /\ mBC = <<>>
    /\ mLeft = <<>>
    /\ mRight = <<>>

NIdle ==
    /\ npc = "idle"
    /\ nResponse = JNull
    /\ nGiven = JNull
    /\ nResult = JNull

NoDiff ==
    [type_changes |-> {}, dictionary_item_added |-> {},
     dictionary_item_removed |-> {}, values_changed |-> {}]

RIdle ==
    /\ rpc = "idle"
    /\ rExpected = JNull
    /\ rActual = JNull
    /\ rAi = FALSE
    /\ rOracle = [kind |-> "disabled", patches |-> <<>>]
    /\ rDiff = NoDiff
    /\ rResult = Ok(<<>>)
    /\ rChanges = <<>>

PIdle ==
    /\ ppc = "idle"
    /\ pData = <<>>
    /\ pGiven = <<>>
    /\ pChanges = <<>>
    /\ pUpdated = <<>>
    /\ pShared = FALSE
    /\ pLeft = <<>>
    /\ pResult = <<>>

EIdle ==
    /\ epc = "idle"
    /\ eSchemas = <<>>
    /\ eRelationships = <<>>
    /\ eReversed = <<>>

SIdle ==
    /\ spc = "idle"
    /\ sCapture = <<>>
    /\ sModel = <<>>
    /\ sFile = <<>>
    /\ sLoaded = <<>>

DIdle ==
    /\ dDb = <<>>
    /\ dBefore = <<>>
    /\ dRequest = <<>>
    /\ dStatus = 0
    /\ dClock = 0

FIdle ==
    /\ fpc = "idle"
    /\ fData = <<>>
    /\ fSchema = <<>>

\* Every part but the named one is at rest.
RestIdleQ == UIdle /\ LIdle /\ AIdle /\ MIdle /\ NIdle /\ RIdle /\ PIdle /\ EIdle /\ SIdle /\ DIdle /\ FIdle

RestIdleU == QIdle /\ LIdle /\ AIdle /\ MIdle /\ NIdle /\ RIdle /\ PIdle /\ EIdle /\ SIdle /\ DIdle /\ FIdle

RestIdleL == QIdle /\ UIdle /\ AIdle /\ MIdle /\ NIdle /\ RIdle /\ PIdle /\ EIdle /\ SIdle /\ DIdle /\ FIdle

RestIdleA == QIdle /\ UIdle /\ LIdle /\ MIdle /\ NIdle /\ RIdle /\ PIdle /\ EIdle /\ SIdle /\ DIdle /\ FIdle

RestIdleM == QIdle /\ UIdle /\ LIdle /\ AIdle /\ NIdle /\ RIdle /\ PIdle /\ EIdle /\ SIdle /\ DIdle /\ FIdle

RestIdleN == QIdle /\ UIdle /\ LIdle /\ AIdle /\ MIdle /\ RIdle /\ PIdle /\ EIdle /\ SIdle /\ DIdle /\ FIdle

RestIdleR == QIdle /\ UIdle /\ LIdle /\ AIdle /\ MIdle /\ NIdle /\ PIdle /\ EIdle /\ SIdle /\ DIdle /\ FIdle

RestIdleP == QIdle /\ UIdle /\ LIdle /\ AIdle /\ MIdle /\ NIdle /\ RIdle /\ EIdle /\ SIdle /\ DIdle /\ FIdle

RestIdleE == QIdle /\ UIdle /\ LIdle /\ AIdle /\ MIdle /\ NIdle /\ RIdle /\ PIdle /\ SIdle /\ DIdle /\ FIdle

RestIdleS == QIdle /\ UIdle /\ LIdle /\ AIdle /\ MIdle /\ NIdle /\ RIdle /\ PIdle /\ EIdle /\ DIdle /\ FIdle

RestIdleD == QIdle /\ UIdle /\ LIdle /\ AIdle /\ MIdle /\ NIdle /\ RIdle /\ PIdle /\ EIdle /\ SIdle /\ FIdle

RestIdleF == QIdle /\ UIdle /\ LIdle /\ AIdle /\ MIdle /\ NIdle /\ RIdle /\ PIdle /\ EIdle /\ SIdle /\ DIdle

(***************************************************************************)
(* self_improving_agent.py: SelfImprovingAgent.run and run_iteration.      *)
(* One action per step of an iteration; the action that ends an iteration  *)
(* also does what run does with the returned record.                       *)
(***************************************************************************)
WithStep(result, step, value) ==
    [result EXCEPT !.steps = (step :> value) @@ result.steps]

WithConverged(result, flag) == ("converged" :> flag) @@ result

NoLocals ==
    /\ parsed_data' = <<>>
    /\ expected_responses' = <<>>
    /\ test_endpoints' = <<>>
    /\ tc' = 0
    /\ actual_responses' = <<>>
    /\ quality_scores' = <<>>
    /\ probes' = <<>>

\* run: self.history.append(result); break on convergence, else go on while
\* the budget lasts; after the loop the final report is generated.
Return(result, how) ==
    /\ history' = Append(history, result)
    /\ outcomes' = Append(outcomes,
                      [how     |-> how,
                       errors  |-> Cardinality({ j \in 1..Len(probes) :
                                       probes[j] # <<>> /\ probes[j][1].error }),
                       scored  |-> how # "generation_failed",
                       average |-> IF how = "generation_failed" THEN Rat(0, 1)
                                   ELSE Average(quality_scores)])
    /\ iteration_result' = <<>>
    /\ run_i' = run_i + 1
    /\ pc' = IF Converged(result) \/ run_i + 1 >= max_iterations
             THEN "report" ELSE "loop"
    /\ UNCHANGED <<config, iteration, final_report>>

\* What the history variable `loaded` keeps of an iteration: the model Step 1
\* loaded, the endpoints whose probe was answered, and the suggestions and
\* changes of Step 4.
NewLoad(model) ==
    [model |-> model, answered |-> {}, suggestions |-> <<>>, changes |-> <<>>,
     applied |-> FALSE]

\* The expected endpoints for which actual_responses got the probe's body.
Answered ==
    { test_endpoints[j].path : j \in
        { k \in 1..Len(test_endpoints) :
            /\ Truthy(Get(expected_responses, test_endpoints[k].path, JObj(NoFields)))
            /\ probes[k] # <<>>
            /\ ~probes[k][1].error } }

\* run_iteration up to Step 1.
StartIteration ==
    /\ pc = "loop"
    /\ run_i < max_iterations
    /\ iteration' = iteration + 1
    /\ iteration_result' = [iteration |-> iteration + 1, steps |-> NoFields]
    /\ pc' = "parsing"
    /\ UNCHANGED <<config, run_i, history, file, locals, final_report, outcomes, loaded>>

\* Step 1 with parsed_endpoints.json present and well-formed.
LoadParsed ==
    /\ pc = "parsing"
    /\ file.state = "valid"
    /\ parsed_data' = file.data
    /\ iteration_result' = WithStep(iteration_result, "parsing",
                               [endpoints_found |-> Len(file.data)])
    /\ loaded' = Append(loaded, NewLoad(file.data))
    /\ pc' = "generating"
    /\ UNCHANGED <<config, iteration, run_i, history, file, expected_responses,
                   test_endpoints, tc, actual_responses, quality_scores, probes,
                   final_report, outcomes>>

\* Step 1 without parsed_endpoints.json: the capture is parsed and the
\* result written to parsed_endpoints.json.
ParseCapture ==
    /\ pc = "parsing"
    /\ file.state = "absent"
    /\ capture.ok
    /\ parsed_data' = capture.data
    /\ file' = [state |-> "valid", data |-> JsonRoundTrip(capture.data)]
    /\ iteration_result' = WithStep(iteration_result, "parsing",
                               [endpoints_found |-> Len(capture.data)])
    /\ loaded' = Append(loaded, NewLoad(capture.data))
    /\ pc' = "generating"
    /\ UNCHANGED <<config, iteration, run_i, history, expected_responses,
                   test_endpoints, tc, actual_responses, quality_scores, probes,
                   final_report, outcomes>>

\* Step 1 raising: json.load on a malformed parsed_endpoints.json, or
\* parser.analyze() on a malformed capture.  Step 1 is outside every try
\* block, so the exception leaves run_iteration and run.
ParseFails ==
    /\ pc = "parsing"
    /\ \/ file.state = "corrupt"
       \/ file.state = "absent" /\ ~capture.ok
    /\ pc' = "crashed"
    /\ UNCHANGED <<config, iteration, run_i, history, iteration_result, file, locals,
                   final_report, outcomes, loaded>>

\* Step 2 succeeding, and the set-up of Step 3.
Generate ==
    /\ pc = "generating"
    /\ iteration_result' = WithStep(iteration_result, "generation", [success |-> TRUE])
    /\ expected_responses' = extract_expected_from_capture(parsed_data)
    /\ test_endpoints' = TestEndpoints(parsed_data)
    /\ tc' = 1
    /\ actual_responses' = <<>>
    /\ quality_scores' = <<>>
    /\ probes' = [j \in 1..Len(TestEndpoints(parsed_data)) |-> <<>>]
    /\ pc' = "testing"
    /\ UNCHANGED <<config, iteration, run_i, history, file, parsed_data, final_report,
                   outcomes, loaded>>

GenerateFailsAborts ==
    /\ pc = "generating"
    /\ pc' = "crashed"
    /\ UNCHANGED <<config, iteration, run_i, history, iteration_result, file, locals,
                   final_report, outcomes, loaded>>

\* Step 2 raising: the record is returned without a 'converged' key.
GenerateFails ==
    /\ pc = "generating"
    /\ Return(WithStep(iteration_result, "generation", [error |-> TRUE]),
              "generation_failed")
    /\ NoLocals
    /\ UNCHANGED <<file, loaded>>

ScoresOfCountsErrors(expected, actual) ==
    IF actual.error THEN << Rat(0, 1) >>
    ELSE IF Truthy(expected)
    THEN << calculate_quality_score(expected, actual.body) >>
    ELSE << Rat(1, 2) >>

\* The scores one test case adds to quality_scores.
ScoresOf(expected, actual) ==
    IF actual.error THEN <<>>
    ELSE IF Truthy(expected)
    THEN << calculate_quality_score(expected, actual.body) >>
    ELSE << Rat(1, 2) >>

\* Step 3, one pass of the loop over test_endpoints.
Probe(server) ==
    /\ pc = "testing"
    /\ tc <= Len(test_endpoints)
    /\ LET test_case == test_endpoints[tc]
           expected  == Get(expected_responses, test_case.path, JObj(NoFields))
           actual    == test_clone_endpoint(test_case.method, test_case.path, server)
       IN  /\ actual_responses' =
                  IF Truthy(expected) /\ ~actual.error
                  THEN IF IndexOf(actual_responses, test_case.name) = 0
                       THEN Append(actual_responses,
                                   [key |-> test_case.name, val |-> actual.body])
                       ELSE [actual_responses EXCEPT
                                ![IndexOf(actual_responses, test_case.name)].val =
                                    actual.body]
                  ELSE actual_responses
           /\ quality_scores' = quality_scores \o ScoresOf(expected, actual)
           /\ probes' = [probes EXCEPT ![tc] = Append(@, [error |-> actual.error, sent |-> actual.sent,
                                                      status_code |-> actual.status_code])]
    /\ tc' = tc + 1
    /\ UNCHANGED <<pc, config, iteration, run_i, history, iteration_result, file,
                   parsed_data, expected_responses, test_endpoints, final_report,
                   outcomes, loaded>>

TestingRecord ==
    [endpoints_tested |-> Len(actual_responses),
     average_quality  |-> Average(quality_scores)]

\* End of Step 3 with the threshold met: the iteration has converged.
Converge ==
    /\ pc = "testing"
    /\ tc > Len(test_endpoints)
    /\ ~RatLess(Average(quality_scores), quality_threshold)
    /\ Return(WithConverged(
                  WithStep(WithStep(iteration_result, "testing", TestingRecord),
                           "refinement", [skipped |-> "threshold_met"]),
                  TRUE),
              "converged")
    /\ NoLocals
    /\ file' = file
    /\ loaded' = [loaded EXCEPT ![Len(loaded)].answered = Answered]

\* The changes Step 4 generates, or Raised.
RefinementChanges(ai_available, oracle) ==
    LET suggestions == analyze_differences(expected_responses, actual_responses,
                                           ai_available, oracle)
    IN  IF suggestions.raised THEN Raised
        ELSE Ok([suggestions |-> suggestions.val,
                 changes |-> generate_schema_patches(suggestions.val)])

\* End of Step 3 below the threshold, and Step 4.
Refine(ai_available, oracle) ==
    /\ pc = "testing"
    /\ tc > Len(test_endpoints)
    /\ RatLess(Average(quality_scores), quality_threshold)
    /\ LET tested  == WithStep(iteration_result, "testing", TestingRecord)
           failed  == WithStep(iteration_result, "testing", [error |-> TRUE])
           r       == RefinementChanges(ai_available, oracle)
           refined == WithStep(tested, "refinement",
                          [suggestions_count |-> Len(r.val.suggestions),
                           patches_generated |-> Len(r.val.changes)])
           patched == apply_patches(r.val.changes, parsed_data)
           seen    == [loaded EXCEPT ![Len(loaded)].answered = Answered]
           noted   == [seen EXCEPT ![Len(loaded)].suggestions = r.val.suggestions,
                                   ![Len(loaded)].changes = r.val.changes]
       IN  IF r.raised
           THEN /\ Return(WithConverged(failed, FALSE), "refinement_failed")
                /\ file' = file
                /\ loaded' = seen
           ELSE IF r.val.changes = <<>>
           THEN /\ Return(WithConverged(refined, FALSE), "refined")
                /\ file' = file
                /\ loaded' = noted
           ELSE IF patched.raised
           THEN /\ Return(WithConverged(
                              WithStep(refined, "testing", [error |-> TRUE]), FALSE),
                          "refinement_failed")
                /\ file' = file
                /\ loaded' = noted
           ELSE IF ~DataSerializable(patched.val)
           THEN /\ Return(WithConverged(
                              WithStep(refined, "testing", [error |-> TRUE]), FALSE),
                          "refinement_failed")
                /\ file' = [state |-> "corrupt", data |-> <<>>]
                /\ loaded' = noted
           ELSE /\ Return(WithConverged(refined, FALSE), "refined")
                /\ file' = [state |-> "valid", data |-> JsonRoundTrip(patched.val)]
                /\ loaded' = [noted EXCEPT ![Len(loaded)].applied = TRUE]
    /\ NoLocals

\* run after the loop.
FinalReport ==
    /\ pc = "report"
    /\ final_report' = generate_final_report(history)
    /\ pc' = "done"
    /\ UNCHANGED <<config, iteration, run_i, history, iteration_result, file, locals,
                   outcomes, loaded>>

(***************************************************************************)
(* The agent's environment: the budget and threshold it is constructed     *)
(* with, the schema models its parsers and the WebSocket integration       *)
(* write, the capture, and the clone's behaviour under a probe.            *)
(***************************************************************************)
Thresholds == {Rat(1, 2), Rat(19, 20)}

LoopBodies ==
    { JObj("name" :> JInt(1)),
      JObj(("name" :> JInt(1)) @@ ("done" :> JInt(1))) }

SuccessSchema ==
    JObj(("type" :> JStr(StrCode.object))
         @@ ("properties" :> JObj("success" :> JObj("type" :> JStr(StrCode.boolean)))))

Sample(body) == ListResponses(<< [status |-> 200, body |-> body] >>)

LoopKeys ==
    { <<"GET", " ", "/", "tasks">>, <<"GET", " ", "/", "tasks", "/", "{id}">> }

\* NetworkParser.extract_endpoints, AIEnhancedParser (adds 'path'),
\* integrate_websocket_data (schemas by status), and a method the probe
\* does not support.
LoopInfos ==
    { [methods |-> <<"GET">>, path |-> <<>>,
       responses |-> Sample(JObj("name" :> JInt(1)))],
      [methods |-> <<"GET">>, path |-> <<"/", "tasks">>,
       responses |-> Sample(JObj(("name" :> JInt(1)) @@ ("done" :> JInt(1))))],
      [methods |-> <<"GET">>, path |-> <<>>,
       responses |-> DictResponses(StrKey(200) :> SuccessSchema)],
      [methods |-> <<"PATCH">>, path |-> <<>>,
       responses |-> Sample(JObj("name" :> JInt(1)))] }

DistinctKeys(endpoints) ==
    \A j, k \in 1..Len(endpoints) : endpoints[j].key = endpoints[k].key => j = k

Models ==
    UNION { { m \in [1..n -> [key : LoopKeys, info : LoopInfos]] : DistinctKeys(m) } :
            n \in 0..MaxEndpoints }

ParserModels == { m \in Models : \A j \in 1..Len(m) : m[j].info.responses.fmt = "list" }

Servers ==
    { [raises |-> TRUE, sent |-> 1, status |-> 0, body |-> NoValue] }
    \cup { [raises |-> FALSE, sent |-> 1, status |-> 200, body |-> b] : b \in LoopBodies }
    \cup { [raises |-> FALSE, sent |-> 1, status |-> 404, body |-> JStr(1)] }

Oracles ==
    { [kind |-> "disabled", patches |-> <<>>],
      [kind |-> "raise", patches |-> <<>>],
      [kind |-> "patches", patches |-> <<>>],
      [kind |-> "patches",
       patches |-> << Fix("add_field", "done", JInt(1)) >>] }

Init ==
    /\ pc = "loop"
    /\ max_iterations \in 1..MaxIterations
    /\ quality_threshold \in Thresholds
    /\ \/ /\ file \in { [state |-> "valid", data |-> m] : m \in Models }
                      \cup { [state |-> "corrupt", data |-> <<>>] }
          /\ capture = [ok |-> FALSE, data |-> <<>>]
       \/ /\ file = [state |-> "absent", data |-> <<>>]
          /\ capture \in { [ok |-> TRUE, data |-> m] : m \in ParserModels }
                         \cup { [ok |-> FALSE, data |-> <<>>] }
    /\ iteration = 0
    /\ run_i = 0
    /\ history = <<>>
    /\ iteration_result = <<>>
    /\ parsed_data = <<>>
    /\ expected_responses = <<>>
    /\ test_endpoints = <<>>
    /\ tc = 0
    /\ actual_responses = <<>>
    /\ quality_scores = <<>>
    /\ probes = <<>>
    /\ final_report = <<>>
    /\ outcomes = <<>>
    /\ loaded = <<>>
    /\ RestIdleL

Next ==
    \/ StartIteration /\ UNCHANGED notL
    \/ LoadParsed /\ UNCHANGED notL
    \/ ParseCapture /\ UNCHANGED notL
    \/ ParseFails /\ UNCHANGED notL
    \/ Generate /\ UNCHANGED notL
    \/ GenerateFails /\ UNCHANGED notL
    \/ (\E server \in Servers : Probe(server)) /\ UNCHANGED notL
    \/ Converge /\ UNCHANGED notL
    \/ (\E ai_available \in BOOLEAN : \E oracle \in Oracles :
            Refine(ai_available, oracle)) /\ UNCHANGED notL
    \/ FinalReport /\ UNCHANGED notL

Spec == Init /\ [][Next]_vars

(***************************************************************************)
(* Properties of the agent loop.                                           *)
(***************************************************************************)
LastRecord == history[Len(history)]

GenerationFailedAt(k) ==
    k \in 1..Len(outcomes) /\ outcomes[k].how = "generation_failed"

GenerationFailed == \E k \in 1..Len(outcomes) : GenerationFailedAt(k)

\* C1: whatever the iterations do, run performs at most max_iterations
\* iterations, performs none after a converged one, and history has exactly
\* one record per iteration performed.
C1_OneRecordPerIteration ==
    /\ iteration <= max_iterations
    /\ \A k \in 1..Len(history) : Converged(history[k]) => iteration = k
    /\ pc \in {"loop", "report", "done", "crashed"} => Len(history) = iteration

\* C2: once run has returned, the report's total_iterations is the first
\* iteration whose average quality reached the threshold, with converged
\* true; when no iteration reached it, total_iterations is the budget and
\* converged is false.
C2_StopsAtFirstConvergedIteration ==
    pc = "done" =>
        LET reached == { k \in 1..Len(outcomes) :
                            /\ outcomes[k].scored
                            /\ ~RatLess(outcomes[k].average, quality_threshold) }
        IN  IF reached # {}
            THEN /\ final_report.total_iterations =
                        CHOOSE k \in reached : \A j \in reached : k <= j
                 /\ final_report.total_iterations = iteration
                 /\ final_report.converged = TRUE
            ELSE /\ final_report.total_iterations = max_iterations
                 /\ iteration = max_iterations
                 /\ final_report.converged = FALSE

C2_Witness ==
    /\ pc = "done"
    /\ Len(outcomes) = 2
    /\ outcomes[1].how = "refined"
    /\ RatLess(outcomes[1].average, quality_threshold)
    /\ outcomes[2].how = "converged"
    /\ final_report.total_iterations = 2
    /\ final_report.converged = TRUE

\* C3: a generator raising in iteration k is recorded in k's record, which
\* has no Testing and no Refining step; parsed_endpoints.json is left as it
\* was; run is not aborted: the next step is iteration k+1 when k is below
\* the budget and the final report otherwise, no later step raises out of
\* run, and the report run returns counts every iteration.
C3_GenerationFailureEndsOnlyTheIteration ==
    /\ [][ (pc = "generating" /\ pc' \notin {"generating", "testing"}) =>
              /\ Len(history') = Len(history) + 1
              /\ history'[Len(history')].iteration = iteration
              /\ "error" \in DOMAIN history'[Len(history')].steps["generation"]
              /\ "testing" \notin DOMAIN history'[Len(history')].steps
              /\ "refinement" \notin DOMAIN history'[Len(history')].steps
              /\ file' = file
              /\ pc' = IF iteration < max_iterations THEN "loop" ELSE "report" ]_vars
    /\ [](GenerationFailed =>
            /\ pc # "crashed"
            /\ pc = "loop" => run_i < max_iterations
            /\ pc = "parsing" => file.state = "valid"
            /\ pc = "done" => final_report.total_iterations = iteration)

C3_Witness ==
    /\ pc = "done"
    /\ GenerationFailedAt(1)
    /\ Len(history) = 2
    /\ "testing" \in DOMAIN history[2].steps

\* C4: a failure of Step 1 (loading parsed_endpoints.json or parsing the
\* capture) does not leave run: the iteration's record is appended and the
\* final report returned.
C4_ParsingFailureContained ==
    /\ pc # "crashed"
    /\ pc \in {"loop", "report", "done"} => Len(history) = iteration

C6_TrajectoryCoversEveryIteration ==
    pc = "done" =>
        /\ Len(final_report.improvement_trajectory) = iteration
        /\ \A j \in 1..Len(final_report.improvement_trajectory) :
              final_report.improvement_trajectory[j].iteration = j
        /\ outcomes[Len(outcomes)].scored
        /\ final_report.final_quality = outcomes[Len(outcomes)].average

\* C7: the suggestions of Step 4 never report "no response from clone" for
\* an endpoint whose probe was answered.
C7_AnsweredEndpointIsDiffed ==
    \A n \in 1..Len(loaded) :
        \A endpoint \in loaded[n].answered :
            \A j \in 1..Len(loaded[n].suggestions) :
                loaded[n].suggestions[j] # MissingResponse(endpoint)

Digits == {"0", "1", "2", "3", "4", "5", "6", "7", "8", "9"}

\* [a-f0-9] under re.IGNORECASE
HexChars == Digits \cup {"a", "b", "c", "d", "e", "f", "A", "B", "C", "D", "E", "F"}

\* Number of consecutive characters of s, from position i on, that are in cs.
RECURSIVE RunLen(_, _, _)
RunLen(s, i, cs) ==
    IF i <= Len(s) /\ s[i] \in cs THEN 1 + RunLen(s, i + 1, cs) ELSE 0

\* The leftmost position from i on where a match of "/" followed by at
\* least n characters of cs starts, 0 when there is none.
FirstMatch(s, i, cs, n) ==
    LET starts == { j \in i..Len(s) : s[j] = "/" /\ RunLen(s, j + 1, cs) >= n }
    IN  IF starts = {} THEN 0 ELSE CHOOSE j \in starts : \A k \in starts : j <= k

\* re.sub(r'/\d+', '/{id}', s), from position i on: the text before the
\* leftmost match, the replacement, and the rest after the match.
RECURSIVE sub_numeric(_, _)
sub_numeric(s, i) ==
    LET j == FirstMatch(s, i, Digits, 1)
    IN  IF j = 0 THEN SubSeq(s, i, Len(s))
        ELSE SubSeq(s, i, j - 1) \o <<"/", "{", "i", "d", "}">>
             \o sub_numeric(s, j + 1 + RunLen(s, j + 1, Digits))

\* s[i..] starts with [a-f0-9]{8}-[a-f0-9]{4}-[a-f0-9]{4}-[a-f0-9]{4}-[a-f0-9]{12}
MatchesUuidAt(s, i) ==
    /\ i + 35 <= Len(s)
    /\ \A o \in 0..35 :
          IF o \in {8, 13, 18, 23} THEN s[i + o] = "-" ELSE s[i + o] \in HexChars

\* re.sub(r'/<uuid>', '/{uuid}', s, flags=re.IGNORECASE), from position i on.
RECURSIVE sub_uuid(_, _)
sub_uuid(s, i) ==
    LET starts == { j \in i..Len(s) : s[j] = "/" /\ MatchesUuidAt(s, j + 1) }
        first == CHOOSE j \in starts : \A k \in starts : j <= k
    IN  IF starts = {} THEN SubSeq(s, i, Len(s))
        ELSE SubSeq(s, i, first - 1) \o <<"/", "{", "u", "u", "i", "d", "}">>
             \o sub_uuid(s, first + 37)

RECURSIVE sub_gid_as_number(_, _)
sub_gid_as_number(s, i) ==
    LET j == FirstMatch(s, i, HexChars, 15)
    IN  IF j = 0 THEN SubSeq(s, i, Len(s))
        ELSE SubSeq(s, i, j - 1) \o <<"/", "0">>
             \o sub_gid_as_number(s, j + 1 + RunLen(s, j + 1, HexChars))

\* re.sub(r'/[a-f0-9]{15,}', '/{gid}', s, flags=re.IGNORECASE), from i on.
RECURSIVE sub_gid(_, _)
sub_gid(s, i) ==
    LET j == FirstMatch(s, i, HexChars, 15)
    IN  IF j = 0 THEN SubSeq(s, i, Len(s))
        ELSE SubSeq(s, i, j - 1) \o <<"/", "{", "g", "i", "d", "}">>
             \o sub_gid(s, j + 1 + RunLen(s, j + 1, HexChars))

\* urlparse(url).path for a URL given from its path on: everything before
\* the query string or the fragment.
UrlPath(url) ==
    LET stops == { i \in 1..Len(url) : url[i] \in {"?", "#"} }
    IN  IF stops = {} THEN url
        ELSE SubSeq(url, 1, (CHOOSE i \in stops : \A j \in stops : i <= j) - 1)

\* The normalized path normalize_url returns (first component of the tuple).
normalize_url(url) ==
    sub_gid(sub_uuid(sub_numeric(UrlPath(url), 1), 1), 1)

\* extract_endpoints: endpoint_key = f"{method} {normalized_path}"
endpoint_key(method, url) == method \o <<" ">> \o normalize_url(url)

(***************************************************************************)
(* Harness for normalize_url: two captured URLs with the same literal      *)
(* segments, which differ in at most one identifier segment.               *)
(***************************************************************************)
Rep(c, n) == [i \in 1..n |-> c]

\* Canonical UUIDs whose first character is a letter / a digit.
UuidLetterFirst ==
    <<"a">> \o Rep("4", 7) \o <<"-">> \o Rep("b", 4) \o <<"-">> \o Rep("4", 4)
        \o <<"-">> \o Rep("a", 4) \o <<"-">> \o Rep("e", 12)

UuidDigitFirst ==
    <<"1">> \o Rep("c", 7) \o <<"-">> \o Rep("b", 4) \o <<"-">> \o Rep("4", 4)
        \o <<"-">> \o Rep("a", 4) \o <<"-">> \o Rep("e", 12)

LiteralSegs == { <<"1", ".", "0">>, <<"t", "a", "s", "k", "s">> }

\* A URL path starts with nothing or with the API prefix /api/1.0.
Prefixes == { <<>>, << <<"a", "p", "i">>, <<"1", ".", "0">> >> }

NumericSegs == { <<"1">>, <<"4", "2">> }

UuidSegs == { UuidLetterFirst, UuidDigitFirst }

HexSegs == { <<"f">> \o Rep("0", 15), <<"9">> \o Rep("a", 15) }

IdKinds == { NumericSegs, UuidSegs, HexSegs }

AllSegs == LiteralSegs \cup NumericSegs \cup UuidSegs \cup HexSegs

Queries == { <<>>, <<"?", "x", "=", "1">> }

RECURSIVE JoinPath(_)
JoinPath(segs) ==
    IF segs = <<>> THEN <<>>
    ELSE <<"/">> \o Head(segs) \o JoinPath(Tail(segs))

SegLists == UNION { [1..n -> AllSegs] : n \in 1..MaxSegs }

\* The segment lists that differ from segs in at most one identifier
\* segment, replaced by an identifier of the same kind.
Variants(segs) ==
    {segs} \cup
    { [segs EXCEPT ![i] = other] :
         <<i, other>> \in { <<i, o>> \in (1..Len(segs)) \X AllSegs :
                               \E kind \in IdKinds : segs[i] \in kind /\ o \in kind } }

Methods == { <<"G", "E", "T">>, <<"P", "U", "T">> }

UInit ==
    /\ upc = "input"
    /\ uMethod \in Methods
    /\ \E pre \in Prefixes : \E segs \in SegLists : \E q \in Queries :
          /\ uUrl1 = JoinPath(pre \o segs) \o q
          /\ uUrl2 \in { JoinPath(pre \o v) : v \in Variants(segs) }
    /\ uKey1 = <<>>
    /\ uKey2 = <<>>
    /\ uAgain = <<>>
    /\ RestIdleU

UNormalize ==
    /\ upc = "input"
    /\ upc' = "normalized"
    /\ uKey1' = endpoint_key(uMethod, uUrl1)
    /\ uKey2' = endpoint_key(uMethod, uUrl2)
    /\ UNCHANGED <<uMethod, uUrl1, uUrl2, uAgain>>
    /\ UNCHANGED notU

\* The normalized path inside an endpoint key "METHOD path".
KeyPath(method, key) == SubSeq(key, Len(method) + 2, Len(key))

\* normalize_url called on a path it returned.
UNormalizeAgain ==
    /\ upc = "normalized"
    /\ upc' = "renormalized"
    /\ uAgain' = normalize_url(KeyPath(uMethod, uKey1))
    /\ UNCHANGED <<uMethod, uUrl1, uUrl2, uKey1, uKey2>>
    /\ UNCHANGED notU

UNext == UNormalize \/ UNormalizeAgain

SpecUrl == UInit /\ [][UNext]_vars

\* The URL and the endpoint key of the specification's end-to-end scenario.
ScenarioUrl ==
    JoinPath(<< <<"a", "p", "i">>, <<"1", ".", "0">>,
                <<"t", "a", "s", "k", "s">>, <<"1">> >>)

ScenarioKey ==
    <<"G", "E", "T", " ">>
        \o JoinPath(<< <<"a", "p", "i">>, <<"1", ".", "0">>,
                       <<"t", "a", "s", "k", "s">>, <<"{", "i", "d", "}">> >>)

\* C10: GET /api/1.0/tasks/1 yields the endpoint key GET /api/1.0/tasks/{id}
\* (a segment that only begins with digits is left alone), and two URLs that
\* differ only in a numeric, UUID or long-hex segment yield the same key.
C10_NumericSegmentsOnly ==
    upc = "normalized" =>
        /\ (uUrl1 = ScenarioUrl /\ uMethod = <<"G", "E", "T">>
               => uKey1 = ScenarioKey)
        /\ uKey1 = uKey2

\* The segments of a path: the runs between its slashes.
RECURSIVE SplitPath(_)
SplitPath(path) ==
    IF path = <<>> THEN <<>>
    ELSE LET n == RunLen(path, 2, { path[k] : k \in 1..Len(path) } \ {"/"})
         IN  << SubSeq(path, 2, 1 + n) >> \o SplitPath(SubSeq(path, n + 2, Len(path)))

IsUuidSeg(seg) == Len(seg) = 36 /\ MatchesUuidAt(seg, 1)

IsLongHexSeg(seg) == Len(seg) >= 15 /\ RunLen(seg, 1, HexChars) = Len(seg)

\* C11: a segment that is a canonical UUID becomes {uuid} whatever its first
\* character, and every other segment of 15 or more hex characters becomes
\* {gid}.
C11_UuidAndHexSegments ==
    upc = "normalized" =>
        LET segs == SplitPath(UrlPath(uUrl1))
            out  == SplitPath(KeyPath(uMethod, uKey1))
        IN  /\ Len(out) = Len(segs)
            /\ \A k \in 1..Len(segs) :
                  /\ IsUuidSeg(segs[k]) => out[k] = <<"{", "u", "u", "i", "d", "}">>
                  /\ IsLongHexSeg(segs[k]) => out[k] = <<"{", "g", "i", "d", "}">>

Scalars == { JInt(i) : i \in 1..MaxInt } \cup { JStr(1) }

\* All dicts whose keys are a subset of K and whose values come from V.
DictsOver(K, V) == UNION { { JObj(g) : g \in [S -> V] } : S \in SUBSET K }

InnerDicts == DictsOver({"k"}, Scalars)

QDicts ==
    UNION { UNION { { JObj(g @@ h) : g \in [S -> Scalars \cup InnerDicts] } :
                      S \in SUBSET {"name", "done"} } :
              h \in { NoFields } \cup { ("id" :> s) : s \in Scalars } }

QInit ==
    /\ qpc = "input"
    /\ qExpected \in QDicts
    /\ qActual \in QDicts
    /\ qScore = Rat(0, 1)
    /\ RestIdleQ

QScore ==
    /\ qpc = "input"
    /\ qpc' = "scored"
    /\ qScore' = calculate_quality_score(qExpected, qActual)
    /\ UNCHANGED <<qExpected, qActual>>
    /\ UNCHANGED notQ

QNext == QScore

SpecQuality == QInit /\ [][QNext]_vars

\* Top-level key sets after normalisation.
NormKeys(x) == DOMAIN normalize_response(x).f

DisjointKeys(x, y) ==
    /\ NormKeys(x) # {}
    /\ NormKeys(y) # {}
    /\ NormKeys(x) \cap NormKeys(y) = {}

\* C9: for dict-valued expected and actual the quality score lies in [0,1],
\* is exactly 1.0 when the two are identical after normalisation, and is
\* exactly 0.0 when their (non-empty) key sets are completely disjoint.
C9_QualityBoundaries ==
    qpc = "scored" =>
        /\ qScore.d > 0 /\ 0 <= qScore.n /\ qScore.n <= qScore.d
        /\ (normalize_response(qExpected) = normalize_response(qActual)
               => qScore.n = qScore.d)
        /\ (DisjointKeys(qExpected, qActual) => qScore.n = 0)

(***************************************************************************)
(* network_parser.py: NetworkParser.is_api_endpoint.  URLs, header values  *)
(* and bodies are sequences of one-character strings.                      *)
(***************************************************************************)
UpperToLower ==
    [c \in {"A", "P", "I", "J", "S", "O", "N", "G", "T", "E", "L", "D"} |->
        CASE c = "A" -> "a" [] c = "P" -> "p" [] c = "I" -> "i" [] c = "J" -> "j"
          [] c = "S" -> "s" [] c = "O" -> "o" [] c = "N" -> "n" [] c = "G" -> "g"
          [] c = "T" -> "t" [] c = "E" -> "e" [] c = "L" -> "l" [] c = "D" -> "d"]

LowerToUpper ==
    [c \in {"g", "e", "t", "p", "o", "s", "d", "l"} |->
        CASE c = "g" -> "G" [] c = "e" -> "E" [] c = "t" -> "T" [] c = "p" -> "P"
          [] c = "o" -> "O" [] c = "s" -> "S" [] c = "d" -> "D" [] c = "l" -> "L"]

\* str.lower() and str.upper() on the characters that occur in the model.
Lower(str) ==
    [k \in 1..Len(str) |->
        IF str[k] \in DOMAIN UpperToLower THEN UpperToLower[str[k]] ELSE str[k]]

Upper(str) ==
    [k \in 1..Len(str) |->
        IF str[k] \in DOMAIN LowerToUpper THEN LowerToUpper[str[k]] ELSE str[k]]

\* str.strip() of leading whitespace, as far as startswith needs it.
RECURSIVE LStrip(_)
LStrip(str) ==
    IF str # <<>> /\ Head(str) = " " THEN LStrip(Tail(str)) ELSE str

\* The literal patterns of `patterns`.
AllowLiterals ==
    { <<"a", "p", "p", ".", "a", "s", "a", "n", "a", ".", "c", "o", "m",
        "/", "a", "p", "i", "/">>,
      <<"a", "p", "p", ".", "a", "s", "a", "n", "a", ".", "c", "o", "m",
        "/", "-", "/", "a", "p", "i", "/">>,
      <<"a", "p", "p", ".", "a", "s", "a", "n", "a", ".", "c", "o", "m",
        "/", "a", "p", "i", "/", "1", ".", "0", "/">>,
      <<"c", "d", "p", "-", "a", "p", "i", ".", "a", "s", "a", "n", "a",
        ".", "c", "o", "m">>,
      <<"g", "r", "a", "p", "h", "q", "l">>,
      <<"/", "a", "p", "i", "/", "v", "1", "/">> }

\* r'app\.asana\.com/-/[^/]+'
AllowInternal == <<"a", "p", "p", ".", "a", "s", "a", "n", "a", ".", "c",
                   "o", "m", "/", "-", "/">>

DenyWords ==
    { <<"a", "n", "a", "l", "y", "t", "i", "c", "s">>,
      <<"t", "r", "a", "c", "k", "i", "n", "g">>,
      <<"p", "i", "x", "e", "l">>,
      <<"d", "o", "u", "b", "l", "e", "c", "l", "i", "c", "k">>,
      <<"g", "o", "o", "g", "l", "e">>,
      <<"s", "p", "o", "t", "i", "f", "y">> }

ApplicationJson == <<"a", "p", "p", "l", "i", "c", "a", "t", "i", "o", "n",
                     "/", "j", "s", "o", "n">>

\* any(re.search(pattern, url, re.IGNORECASE) for pattern in patterns)
OnAllowList(url) ==
    \/ \E lit \in AllowLiterals : Contains(Lower(url), lit)
    \/ \E k \in 0..(Len(url) - Len(AllowInternal) - 1) :
          /\ SubSeq(Lower(url), k + 1, k + Len(AllowInternal)) = AllowInternal
          /\ url[k + Len(AllowInternal) + 1] # "/"

\* any(exclude in url.lower() for exclude in [...])
OnDenyList(url) == \E word \in DenyWords : Contains(Lower(url), word)

MutationMethods == { <<"P", "O", "S", "T">>, <<"P", "U", "T">>,
                     <<"D", "E", "L", "E", "T", "E">>, <<"P", "A", "T", "C", "H">> }

\* The request is a mutation with a JSON content type or a body that looks
\* like JSON.
MutationWithJson(request) ==
    /\ request.given
    /\ Upper(request.method) \in MutationMethods
    /\ \/ Contains(Lower(request.content_type), ApplicationJson)
       \/ /\ request.post_data # <<>>
          /\ LStrip(request.post_data) # <<>>
          /\ Head(LStrip(request.post_data)) = "{"

\* The response has a JSON content type and the URL is one of asana.com.
JsonFromAsana(url, response) ==
    /\ response.given
    /\ Contains(Lower(response.content_type), ApplicationJson)
    /\ \/ Contains(url, <<"a", "p", "p", ".", "a", "s", "a", "n", "a", ".",
                          "c", "o", "m">>)
       \/ Contains(url, <<"a", "s", "a", "n", "a", ".", "c", "o", "m">>)

is_api_endpoint_ignoring_deny_list(url, request, response) ==
    OnAllowList(url) \/ MutationWithJson(request) \/ JsonFromAsana(url, response)

is_api_endpoint(url, request, response) ==
    IF OnAllowList(url) THEN TRUE
    ELSE IF MutationWithJson(request) /\ ~OnDenyList(url) THEN TRUE
    ELSE IF JsonFromAsana(url, response) /\ ~OnDenyList(url) THEN TRUE
    ELSE FALSE

(***************************************************************************)
(* Harness for is_api_endpoint: one captured message.                      *)
(***************************************************************************)
Scheme == <<"h", "t", "t", "p", "s", ":", "/", "/">>

Hosts ==
    { <<"a", "p", "p", ".", "a", "s", "a", "n", "a", ".", "c", "o", "m">>,
      <<"a", "s", "a", "n", "a", ".", "c", "o", "m">>,
      <<"c", "d", "p", "-", "a", "p", "i", ".", "a", "s", "a", "n", "a",
        ".", "c", "o", "m">>,
      <<"g", "o", "o", "g", "l", "e", ".", "c", "o", "m">>,
      <<"e", "x", "a", "m", "p", "l", "e", ".", "o", "r", "g">> }

UrlPaths ==
    { <<"/", "a", "p", "i", "/", "1", ".", "0", "/", "t">>,
      <<"/", "A", "P", "I", "/", "1", ".", "0", "/", "t">>,
      <<"/", "-", "/", "w", "e", "b">>,
      <<"/", "-", "/">>,
      <<"/", "g", "r", "a", "p", "h", "q", "l">>,
      <<"/", "a", "p", "i", "/", "v", "1", "/", "t">>,
      <<"/", "a", "n", "a", "l", "y", "t", "i", "c", "s">>,
      <<"/", "x">> }

RequestMethods == { <<"G", "E", "T">>, <<"P", "O", "S", "T">>,
                    <<"d", "e", "l", "e", "t", "e">> }

ContentTypes ==
    { <<>>,
      <<"A", "p", "p", "l", "i", "c", "a", "t", "i", "o", "n", "/", "J",
        "S", "O", "N">>,
      <<"t", "e", "x", "t", "/", "h", "t", "m", "l">> }

PostDatas == { <<>>, <<" ">>, <<" ", "{", "}">>, <<"x", "=", "1">> }

Requests ==
    { [given |-> FALSE] }
    \cup [given : {TRUE}, method : RequestMethods, content_type : ContentTypes,
          post_data : PostDatas]

Responses ==
    { [given |-> FALSE] } \cup [given : {TRUE}, content_type : ContentTypes]

AInit ==
    /\ apc = "input"
    /\ aUrl \in { Scheme \o host \o path : host \in Hosts, path \in UrlPaths }
    /\ aRequest \in Requests
    /\ aResponse \in Responses
    /\ aResult = FALSE
    /\ RestIdleA

AClassify ==
    /\ apc = "input"
    /\ apc' = "classified"
    /\ aResult' = is_api_endpoint(aUrl, aRequest, aResponse)
    /\ UNCHANGED <<aUrl, aRequest, aResponse>>
    /\ UNCHANGED notA

ANext == AClassify

SpecClassify == AInit /\ [][ANext]_vars

\* C13 as stated: a message is an API call exactly when its URL is on the
\* allow-list, or it is a mutation with JSON content and its URL is not on
\* the deny-list.
C13_AllowListOrMutation ==
    apc = "classified" =>
        (aResult <=> (OnAllowList(aUrl)
                        \/ (MutationWithJson(aRequest) /\ ~OnDenyList(aUrl))))

\* C13: a message is an API call exactly when its URL is on the allow-list,
\* or its URL is not on the deny-list and it is a mutation with JSON content
\* or has a JSON response from an asana.com URL.
C13_AllowListOrContent ==
    apc = "classified" =>
        (aResult <=> (OnAllowList(aUrl)
                        \/ (~OnDenyList(aUrl)
                              /\ (MutationWithJson(aRequest)
                                    \/ JsonFromAsana(aUrl, aResponse)))))

C13_Witness ==
    /\ apc = "classified"
    /\ aResult
    /\ ~OnAllowList(aUrl)
    /\ ~MutationWithJson(aRequest)
    /\ JsonFromAsana(aUrl, aResponse)

(***************************************************************************)
(* network_parser.py: NetworkParser.infer_schema_from_data.  Samples are   *)
(* JSON values; a list is a value whose f is the sequence of its items; a  *)
(* string is a code of StrChars, its characters.  A schema is a record     *)
(*   [type, format, items, properties, required, anyOf]                    *)
(* where type is "none" for a schema without 'type' (a union), format is   *)
(* "" when absent, items is <<>> for {} or absent and <<schema>>           *)
(* otherwise, and required is absent, None, or a list of keys.             *)
(***************************************************************************)
StrChars(code) ==
    CASE code = 30 -> <<>>
      [] code = 31 -> <<"m", "i", "l", "k">>
      [] code = 32 -> <<"2", "0", "2", "4", "-", "0", "1", "-", "0", "2">>
      [] code = 33 -> <<"2", "0", "2", "4", "-", "0", "1", "-", "0", "2", "T",
                        "0", "3", ":", "0", "4">>
      [] code = 34 -> <<"h", "t", "t", "p", "s", ":", "/", "/", "a">>
      [] code = 35 -> <<"1", "2", "3", "4", "5", "6", "7", "8", "-", "1", "2", "3", "4",
                        "-", "1", "2", "3", "4", "-", "1", "2", "3", "4", "-",
                        "1", "2", "3", "4", "5", "6", "7", "8", "9", "A", "b", "c">>
      [] code = 36 -> <<"2", "0", "2", "4", "-", "0", "1", "-", "0", "2", " ",
                        "0", "3", ":", "0", "4">>
      [] code = 37 -> <<"h", "t", "t", "p", ":", "/", "/", "a">>
      [] OTHER -> <<"x">>

\* re.match(r'^\d{4}-\d{2}-\d{2}', data)
MatchesDate(chars) ==
    /\ Len(chars) >= 10
    /\ \A k \in 1..10 :
          IF k \in {5, 8} THEN chars[k] = "-" ELSE chars[k] \in Digits

\* re.match(r'^\d{4}-\d{2}-\d{2}T', data)
MatchesDateTime(chars) ==
    /\ MatchesDate(chars)
    /\ Len(chars) >= 11
    /\ chars[11] = "T"

StartsWith(chars, prefix) ==
    Len(chars) >= Len(prefix) /\ SubSeq(chars, 1, Len(prefix)) = prefix

StringFormat(chars) ==
    IF MatchesDate(chars) THEN "date"
    ELSE IF MatchesDateTime(chars) THEN "date-time"
    ELSE IF Len(chars) = 36 /\ MatchesUuidAt(chars, 1) THEN "uuid"
    ELSE IF \/ StartsWith(chars, <<"h", "t", "t", "p", ":", "/", "/">>)
            \/ StartsWith(chars, <<"h", "t", "t", "p", "s", ":", "/", "/">>)
    THEN "uri"
    ELSE ""

ReqAbsent == [state |-> "absent", keys |-> {}]

ReqNone == [state |-> "none", keys |-> {}]

ReqList(keys) == [state |-> "list", keys |-> keys]

Prim(type, format) ==
    [type |-> type, format |-> format, items |-> <<>>, properties |-> NoFields,
     required |-> ReqAbsent, anyOf |-> <<>>]

ArraySchema(items) ==
    [type |-> "array", format |-> "", items |-> items, properties |-> NoFields,
     required |-> ReqAbsent, anyOf |-> <<>>]

ObjectSchema(properties, required) ==
    [type |-> "object", format |-> "", items |-> <<>>, properties |-> properties,
     required |-> required, anyOf |-> <<>>]

AnyOf(schema1, schema2) ==
    [type |-> "none", format |-> "", items |-> <<>>, properties |-> NoFields,
     required |-> ReqAbsent, anyOf |-> <<schema1, schema2>>]

\* value is not None and value != ''
CountsAsRequired(value) ==
    value.t # "null" /\ ~(value.t = "str" /\ StrChars(value.v) = <<>>)

RECURSIVE infer_schema_from_data(_)
infer_schema_from_data(data) ==
    CASE data.t = "null" -> Prim("null", "")
      [] data.t = "bool" -> Prim("boolean", "")
      [] data.t = "int" -> Prim("integer", "")
      [] data.t = "float" -> Prim("number", "")
      [] data.t = "str" -> Prim("string", StringFormat(StrChars(data.v)))
      [] data.t = "list" ->
            IF Len(data.f) = 0 THEN ArraySchema(<<>>)
            ELSE ArraySchema(<< infer_schema_from_data(data.f[1]) >>)
      [] data.t = "obj" ->
            LET required == { key \in DOMAIN data.f : CountsAsRequired(data.f[key]) }
            IN  ObjectSchema([key \in DOMAIN data.f |->
                                 infer_schema_from_data(data.f[key])],
                             IF required # {} THEN ReqList(required) ELSE ReqNone)
      [] OTHER -> Prim("string", "")

(***************************************************************************)
(* network_parser.py: NetworkParser.merge_schemas.  The result is Raised   *)
(* (TypeError of `key in None`) or the merged schema.                      *)
(***************************************************************************)
\* `key in schema1.get('required', []) or key in schema2.get('required', [])`
\* raises for a key when the left list is None, or when the key is not in
\* the left list and the right list is None.
RequiredRaises(schema1, schema2, all_keys) ==
    \E key \in all_keys :
        \/ schema1.required.state = "none"
        \/ key \notin schema1.required.keys /\ schema2.required.state = "none"

merge_schemas_keep_first(schema1, schema2) == Ok(schema1)

RECURSIVE merge_schemas(_, _)
merge_schemas(schema1, schema2) ==
    IF schema1.type # schema2.type
    THEN IF schema1.type = "null" THEN Ok(schema2)
         ELSE IF schema2.type = "null" THEN Ok(schema1)
         ELSE Ok(AnyOf(schema1, schema2))
    ELSE IF schema1.type = "object"
    THEN LET keys1    == DOMAIN schema1.properties
             keys2    == DOMAIN schema2.properties
             all_keys == keys1 \cup keys2
             merged   == [key \in all_keys |->
                             IF key \in keys1 /\ key \in keys2
                             THEN merge_schemas(schema1.properties[key],
                                                schema2.properties[key])
                             ELSE IF key \in keys1 THEN Ok(schema1.properties[key])
                             ELSE Ok(schema2.properties[key])]
             required == { key \in all_keys :
                             \/ key \in schema1.required.keys
                             \/ key \in schema2.required.keys }
         IN  IF \E key \in all_keys : merged[key].raised THEN Raised
             ELSE IF RequiredRaises(schema1, schema2, all_keys) THEN Raised
             ELSE Ok(ObjectSchema([key \in all_keys |-> merged[key].val],
                                  IF required # {} THEN ReqList(required)
                                  ELSE ReqAbsent))
    ELSE IF schema1.type = "array"
    THEN IF schema1.items # <<>> /\ schema2.items # <<>>
         THEN LET items == merge_schemas(schema1.items[1], schema2.items[1])
              IN  IF items.raised THEN Raised ELSE Ok(ArraySchema(<< items.val >>))
         ELSE IF schema1.items # <<>> THEN Ok(ArraySchema(schema1.items))
         ELSE Ok(ArraySchema(schema2.items))
    ELSE IF schema1.format # "" THEN Ok(schema1) ELSE Ok(schema2)

\* merge_schemas of a result of merge_schemas.
MergeInto(result, schema) ==
    IF result.raised THEN Raised ELSE merge_schemas(result.val, schema)

MergeOnto(schema, result) ==
    IF result.raised THEN Raised ELSE merge_schemas(schema, result.val)

(***************************************************************************)
(* Harness for infer_schema_from_data and merge_schemas: three samples of  *)
(* one endpoint, merged as infer_schemas folds them and the other way.     *)
(***************************************************************************)
Milk == [t |-> "str", v |-> 31, f |-> NoFields]

Blank == [t |-> "str", v |-> 30, f |-> NoFields]

Samples ==
    { JNull, JInt(1), Milk, JBool(1),
      JList(<<>>), JList(<< JInt(1) >>), JList(<< Milk >>),
      JObj("name" :> JInt(1)),
      JObj("name" :> JNull),
      JObj("name" :> Milk),
      JObj("name" :> Blank),
      JObj("done" :> JBool(1)),
      JObj(("name" :> Milk) @@ ("done" :> JBool(1))),
      JObj(("name" :> Milk) @@ ("done" :> JNull)),
      JObj("name" :> JObj("k" :> JInt(1))),
      JObj("name" :> JObj("k" :> JNull)),
      JObj("name" :> JList(<< JInt(1) >>)) }

MInit ==
    /\ mpc = "input"
    /\ mSamples \in [1..3 -> Samples]
    /\ mA = <<>>
    /\ mB = <<>>
    /\ mC = <<>>
    /\ mAB = <<>>
    /\ mBC = <<>>
    /\ mLeft = <<>>
    /\ mRight = <<>>
    /\ RestIdleM

\* infer_schemas: one schema per sample.
MInfer ==
    /\ mpc = "input"
    /\ mpc' = "inferred"
    /\ mA' = infer_schema_from_data(mSamples[1])
    /\ mB' = infer_schema_from_data(mSamples[2])
    /\ mC' = infer_schema_from_data(mSamples[3])
    /\ UNCHANGED <<mSamples, mAB, mBC, mLeft, mRight>>
    /\ UNCHANGED notM

MMerge ==
    /\ mpc = "inferred"
    /\ mpc' = "merged"
    /\ mAB' = merge_schemas(mA, mB)
    /\ mBC' = merge_schemas(mB, mC)
    /\ mLeft' = MergeInto(merge_schemas(mA, mB), mC)
    /\ mRight' = MergeOnto(mA, merge_schemas(mB, mC))
    /\ UNCHANGED <<mSamples, mA, mB, mC>>
    /\ UNCHANGED notM

MNext == MInfer \/ MMerge

SpecMerge == MInit /\ [][MNext]_vars

\* The kind of a schema: its type, or "union" for an anyOf.
Kind(schema) == IF schema.anyOf # <<>> THEN "union" ELSE schema.type

Required(schema) == schema.required.keys

\* The required keys of a schema, each with the path of its object; the
\* members of a union are at the path of the union.
RECURSIVE RequiredAt(_, _)
RequiredAt(schema, path) ==
    { <<path, key>> : key \in Required(schema) }
    \cup UNION { RequiredAt(schema.properties[key], Append(path, key)) :
                    key \in DOMAIN schema.properties }
    \cup UNION { RequiredAt(schema.items[k], Append(path, "[]")) :
                    k \in 1..Len(schema.items) }
    \cup UNION { RequiredAt(schema.anyOf[k], path) : k \in 1..Len(schema.anyOf) }

\* The types of a schema, each with its path.
RECURSIVE TypesAt(_, _)
TypesAt(schema, path) ==
    (IF Kind(schema) = "union" THEN {} ELSE { <<path, schema.type>> })
    \cup UNION { TypesAt(schema.properties[key], Append(path, key)) :
                    key \in DOMAIN schema.properties }
    \cup UNION { TypesAt(schema.items[k], Append(path, "[]")) :
                    k \in 1..Len(schema.items) }
    \cup UNION { TypesAt(schema.anyOf[k], path) : k \in 1..Len(schema.anyOf) }

\* Two merge results have the same required sets and the same types.
SameShape(r1, r2) ==
    /\ ~r1.raised
    /\ ~r2.raised
    /\ RequiredAt(r1.val, <<>>) = RequiredAt(r2.val, <<>>)
    /\ TypesAt(r1.val, <<>>) = TypesAt(r2.val, <<>>)

\* The left fold of merge_schemas over the samples in the order `order`.
Fold(order) ==
    MergeInto(merge_schemas(infer_schema_from_data(mSamples[order[1]]),
                            infer_schema_from_data(mSamples[order[2]])),
              infer_schema_from_data(mSamples[order[3]]))

Orders == { order \in [1..3 -> 1..3] : \A j, k \in 1..3 : order[j] = order[k] => j = k }

\* C14: the required set of the merge of two object schemas is the
\* intersection of their required sets, so along the left fold it only
\* shrinks.
C14_RequiredIsIntersection ==
    mpc = "merged" =>
        /\ (Kind(mA) = "object" /\ Kind(mB) = "object" /\ ~mAB.raised) =>
              Required(mAB.val) = Required(mA) \cap Required(mB)
        /\ (Kind(mA) = "object" /\ Kind(mB) = "object" /\ Kind(mC) = "object"
              /\ ~mLeft.raised) =>
              /\ Required(mLeft.val) \subseteq Required(mAB.val)
              /\ Required(mAB.val) \subseteq Required(mA)

\* C15: merge(merge(a, b), c) and merge(a, merge(b, c)) have the same
\* required sets and the same types at every path, and so has the left fold
\* over every order of the samples.
C15_MergeOrderIndependent ==
    mpc = "merged" =>
        /\ SameShape(mLeft, mRight)
        /\ \A order \in Orders : SameShape(Fold(order), mLeft)

\* C16: merge_schemas returns a schema for every pair of schemas
\* infer_schema_from_data produces.
C16_MergeNeverRaises ==
    mpc = "merged" => ~mAB.raised /\ ~mBC.raised

\* What merge_schemas is to return for two schemas of different kinds.
MismatchResult(x, y) ==
    IF Kind(x) = "null" THEN y
    ELSE IF Kind(y) = "null" THEN x
    ELSE AnyOf(x, y)

\* r is a merge of x and y in which every pair of different kinds, at any
\* depth, is merged as MismatchResult says.
RECURSIVE MismatchMerged(_, _, _)
MismatchMerged(x, y, r) ==
    IF Kind(x) # Kind(y) THEN ~r.raised /\ r.val = MismatchResult(x, y)
    ELSE IF r.raised THEN TRUE
    ELSE IF Kind(x) = "object"
    THEN \A key \in DOMAIN x.properties \cap DOMAIN y.properties :
            MismatchMerged(x.properties[key], y.properties[key],
                           Ok(r.val.properties[key]))
    ELSE IF Kind(x) = "array" /\ x.items # <<>> /\ y.items # <<>>
    THEN MismatchMerged(x.items[1], y.items[1], Ok(r.val.items[1]))
    ELSE TRUE

\* C17: two schemas of different kinds merge to the non-null one when one
\* is null and to the anyOf of both otherwise, at every depth and also when
\* an input is a union.
C17_MismatchGivesUnion ==
    mpc = "merged" =>
        /\ MismatchMerged(mA, mB, mAB)
        /\ MismatchMerged(mB, mC, mBC)
        /\ ~mAB.raised => MismatchMerged(mAB.val, mC, mLeft)
        /\ ~mBC.raised => MismatchMerged(mA, mBC.val, mRight)

C17_Witness ==
    /\ mpc = "merged"
    /\ ~mAB.raised
    /\ Kind(mAB.val) = "union"
    /\ Kind(mC) = "object"
    /\ ~mLeft.raised
    /\ mLeft.val = AnyOf(mAB.val, mC)
    /\ ~mBC.raised
    /\ Kind(mBC.val) = "object"
    /\ Kind(mBC.val.properties["name"]) = "union"

(***************************************************************************)
(* Harness for _normalize_response: one response, a dict or a list.        *)
(***************************************************************************)
Leaf == JInt(1)

\* Dicts with a volatile key, another key, both or none.
FlatDicts ==
    { JObj(NoFields), JObj("id" :> Leaf), JObj("name" :> Leaf),
      JObj(("id" :> Leaf) @@ ("name" :> Leaf)) }

NestedValues ==
    {Leaf} \cup FlatDicts
    \cup { JObj("name" :> d) : d \in FlatDicts }
    \cup { JList(<<>>), JList(<< Leaf >>) }
    \cup { JList(<< d >>) : d \in FlatDicts }
    \cup { JList(<< JList(<< d >>) >>) : d \in FlatDicts }

ResponseKeys == {"timestamp", "name", "items"}

NResponses ==
    UNION { { JObj(fields) : fields \in [K -> NestedValues] } : K \in SUBSET ResponseKeys }
    \cup { JList(<< x >>) : x \in NestedValues }

NInit ==
    /\ npc = "input"
    /\ nResponse \in NResponses
    /\ nGiven = nResponse
    /\ nResult = JNull
    /\ RestIdleN

\* _normalize_response builds a new dict and new lists; it assigns to no
\* part of its argument.
NNormalize ==
    /\ npc = "input"
    /\ npc' = "normalized"
    /\ nResult' = normalize_response(nResponse)
    /\ UNCHANGED <<nResponse, nGiven>>
    /\ UNCHANGED notN

NNext == NNormalize

SpecNormalize == NInit /\ [][NNext]_vars

\* x without the volatile keys of its dicts, at every depth.
RECURSIVE Stripped(_)
Stripped(x) ==
    IF IsDict(x)
    THEN JObj([key \in (DOMAIN x.f) \ VolatileKeys |-> Stripped(x.f[key])])
    ELSE IF IsList(x) THEN JList([k \in 1..Len(x.f) |-> Stripped(x.f[k])])
    ELSE x

\* C18: the result is the response without its volatile keys at every
\* nesting level, list elements and a top-level list included, everything
\* else being kept; the argument is as it was.
C18_VolatileKeysRemovedEverywhere ==
    npc = "normalized" =>
        /\ nResult = Stripped(nGiven)
        /\ nResponse = nGiven

(***************************************************************************)
(* Harness for _analyze_single_result: one endpoint whose expected and     *)
(* actual responses are compared and, when they differ, analysed, as       *)
(* analyze_differences does for each endpoint.                             *)
(***************************************************************************)
RValues == {JInt(1), JInt(2), JStr(1)}

RKeys == {"name", "done"}

RDicts == UNION { { JObj(fields) : fields \in [K -> RValues] } : K \in SUBSET RKeys }

\* What the oracle may do: be disabled, raise, return no patch, a patch, a
\* string where a patch is due, or a dict without the keys of a patch.
ROracles ==
    Oracles
    \cup { [kind |-> "patches", patches |-> << JStr(1) >>],
           [kind |-> "patches", patches |-> << [note |-> "none"] >>] }

RInit ==
    /\ rpc = "input"
    /\ rExpected \in RDicts
    /\ rActual \in RDicts \ {JObj(NoFields)}     \* `if not actual` is skipped
    /\ rAi \in BOOLEAN
    /\ rOracle \in ROracles
    /\ rDiff = NoDiff
    /\ rResult = Ok(<<>>)
    /\ rChanges = <<>>
    /\ RestIdleR

RCompare ==
    /\ rpc = "input"
    /\ rpc' = "compared"
    /\ rDiff' = compare_responses(rExpected, rActual)
    /\ UNCHANGED <<rExpected, rActual, rAi, rOracle, rResult, rChanges>>
    /\ UNCHANGED notR

RAnalyze ==
    /\ rpc = "compared"
    /\ HasDifferences(rDiff)
    /\ rpc' = "analyzed"
    /\ rResult' = analyze_single_result("GET /tasks", rDiff, rExpected, rActual,
                                        rAi, rOracle)
    /\ UNCHANGED <<rExpected, rActual, rAi, rOracle, rDiff, rChanges>>
    /\ UNCHANGED notR

\* analyze_differences appends the suggestion, if any, and Step 4 hands the
\* list to generate_schema_patches.
RGenerate ==
    /\ rpc = "analyzed"
    /\ ~rResult.raised
    /\ rpc' = "generated"
    /\ rChanges' = generate_schema_patches(rResult.val)
    /\ UNCHANGED <<rExpected, rActual, rAi, rOracle, rDiff, rResult>>
    /\ UNCHANGED notR

RNext == RCompare \/ RAnalyze \/ RGenerate

SpecAnalyze == RInit /\ [][RNext]_vars

\* The actions the fixed table gives for a diff, one per entry.
TableActions(diff) ==
    [k \in 1..Cardinality(diff.dictionary_item_added) |-> "add_field"]
    \o [k \in 1..Cardinality(diff.dictionary_item_removed) |-> "remove_field"]
    \o [k \in 1..Cardinality(diff.values_changed) |-> "update_field_value"]
    \o [k \in 1..Cardinality(diff.type_changes) |-> "update_field_type"]

DiffEntries(diff) ==
    Cardinality(diff.dictionary_item_added) + Cardinality(diff.dictionary_item_removed)
    + Cardinality(diff.values_changed) + Cardinality(diff.type_changes)

FixesOf(result) == IF result.val = <<>> THEN <<>> ELSE result.val[1].fixes

ActionsOf(fixes) ==
    [k \in 1..Len(fixes) |->
        IF "action" \in DOMAIN fixes[k] THEN fixes[k].action ELSE ""]

\* C19: with the oracle disabled the analysis returns one patch per diff
\* entry, with the action the fixed table gives for the entry's category:
\* add_field for a key only in actual, remove_field for a key only in
\* expected, update_field_value and update_field_type for mismatches.
C19_OnePatchPerDiffEntry ==
    (rpc = "analyzed" /\ rAi /\ rOracle.kind = "disabled") =>
        /\ ~rResult.raised
        /\ Len(FixesOf(rResult)) = DiffEntries(rDiff)
        /\ ActionsOf(FixesOf(rResult)) = TableActions(rDiff)

OracleUnusable ==
    \/ rOracle.kind \in {"disabled", "raise"}
    \/ rOracle.patches = <<>>
    \/ \E k \in 1..Len(rOracle.patches) :
          \/ ~PatchIsDict(rOracle.patches[k])
          \/ "action" \notin DOMAIN rOracle.patches[k]

\* C20: when the oracle is disabled, raises or returns nothing usable, the
\* analysis returns the patches of the deterministic mapping, whether the
\* rule agent was imported or not, and raises nothing.
C20_FallbackIsTheDeterministicMapping ==
    (rpc = "analyzed" /\ OracleUnusable) =>
        /\ ~rResult.raised
        /\ ActionsOf(FixesOf(rResult)) = TableActions(rDiff)

(***************************************************************************)
(* Harness for apply_patches, one step per statement: the deep copy, each  *)
(* round of the loop over openapi_changes, the return.  updated_data is    *)
(* an object of its own or the caller's object; an assignment to a part of *)
(* a shared object is seen by the caller.                                  *)
(***************************************************************************)
MaxChanges == 2

SchemaOf(properties) ==
    JObj(("type" :> JStr(StrCode.object)) @@ ("properties" :> JObj(properties)))

PatchSchemas ==
    { SchemaOf("name" :> JObj("type" :> JStr(StrCode.string))),
      SchemaOf(("name" :> JObj("type" :> JStr(StrCode.string)))
               @@ ("done" :> JObj("type" :> JStr(StrCode.boolean)))) }

\* Schemas by status as integrate_websocket_data and a reloaded file hold
\* them, by integer status as infer_schemas holds them in memory, and the
\* captured samples of extract_endpoints.
PatchInfos ==
    { [methods |-> <<"GET">>, path |-> <<>>,
       responses |-> DictResponses(StrKey(200) :> sch)] : sch \in PatchSchemas }
    \cup { [methods |-> <<"GET">>, path |-> <<>>,
            responses |-> DictResponses(IntKey(200) :> SchemaOf(NoFields))],
           [methods |-> <<"GET">>, path |-> <<>>,
            responses |-> Sample(JObj("name" :> JInt(1)))] }

PatchModels ==
    UNION { { m \in [1..n -> [key : LoopKeys, info : PatchInfos]] : DistinctKeys(m) } :
            n \in 0..Cardinality(LoopKeys) }

PatchChanges ==
    { Change(e, a, f, JStr(StrCode.integer)) :
        e \in LoopKeys, a \in {"add_property", "update_property_type"},
        f \in {"name", "done"} }
    \cup { Change(e, "remove_property", f, NoValue) : e \in LoopKeys, f \in {"name", "done"} }
    \cup { Change(e, "rename_property", "name", NoValue) : e \in LoopKeys }

PInit ==
    /\ ppc = "called"
    /\ pData \in PatchModels
    /\ pGiven = pData
    /\ pChanges \in UNION { [1..n -> PatchChanges] : n \in 0..MaxChanges }
    /\ pUpdated = <<>>
    /\ pShared = FALSE
    /\ pLeft = pChanges
    /\ pResult = <<>>
    /\ RestIdleP

SameObject(data) == [raised |-> FALSE, shared |-> TRUE, val |-> data]

\* json.loads(json.dumps(parsed_data)): a new object, or an exception.
DeepCopy(data) ==
    IF ~DataSerializable(data) THEN [raised |-> TRUE, shared |-> FALSE, val |-> <<>>]
    ELSE [raised |-> FALSE, shared |-> FALSE, val |-> JsonRoundTrip(data)]

PCopy ==
    /\ ppc = "called"
    /\ LET copy == DeepCopy(pData)
       IN  /\ ppc' = IF copy.raised THEN "raised" ELSE "applying"
           /\ pUpdated' = copy.val
           /\ pShared' = copy.shared
    /\ UNCHANGED <<pData, pGiven, pChanges, pLeft, pResult>>
    /\ UNCHANGED notP

\* One round of `for change in patches.get("openapi_changes", [])`.
PApplyChange ==
    /\ ppc = "applying"
    /\ pLeft # <<>>
    /\ LET r == ApplyChange(pUpdated, Head(pLeft))
       IN  IF r.raised
           THEN /\ ppc' = "raised"
                /\ UNCHANGED <<pUpdated, pData, pLeft>>
           ELSE /\ ppc' = "applying"
                /\ pUpdated' = r.val
                /\ pData' = IF pShared THEN r.val ELSE pData
                /\ pLeft' = Tail(pLeft)
    /\ UNCHANGED <<pGiven, pChanges, pShared, pResult>>
    /\ UNCHANGED notP

PReturn ==
    /\ ppc = "applying"
    /\ pLeft = <<>>
    /\ ppc' = "returned"
    /\ pResult' = pUpdated
    /\ UNCHANGED <<pData, pGiven, pChanges, pUpdated, pShared, pLeft>>
    /\ UNCHANGED notP

PNext == PCopy \/ PApplyChange \/ PReturn

SpecPatch == PInit /\ [][PNext]_vars

\* C21: at every point of a call of apply_patches, for every list of
\* changes, the model passed in is as it was at the call; the model
\* returned is another object, and it is the function of (changes, model)
\* that apply_patches computes.
C21_ArgumentUnchanged ==
    /\ pData = pGiven
    /\ ppc = "returned" =>
          /\ ~pShared
          /\ pResult = apply_patches(pChanges, pGiven).val

C21_Witness ==
    /\ ppc = "returned"
    /\ pChanges # <<>>
    /\ pResult # JsonRoundTrip(pGiven)
    /\ pData = pGiven


\* C29: a call of apply_patches changes the response schemas of the
\* endpoints its changes name and of no other endpoint key, a key that
\* contains a named endpoint as a substring included.
C29_OnlyTheNamedEndpointChanges ==
    ppc = "returned" =>
        \A i \in 1..Len(pResult) :
            (\A k \in 1..Len(pChanges) : pChanges[k].endpoint # pResult[i].key)
                => pResult[i] = JsonRoundTrip(pGiven)[i]


\* The fixes come from the engine's heuristics or from the rule agent's
\* fallback, not from an answer of the oracle.
FixesAreDerived ==
    \/ ~rAi
    \/ rOracle.kind \in {"disabled", "raise"}
    \/ rOracle.patches = <<>>

\* C30: every fix the heuristics or the rule agent's fallback derive from a
\* diff becomes a schema change, and a type mismatch in the diff gives an
\* update_property_type change.
C30_NoDerivedFixIsDropped ==
    (rpc = "generated" /\ FixesAreDerived) =>
        /\ Len(rChanges) = Len(FixesOf(rResult))
        /\ rDiff.type_changes # {} =>
              \E k \in 1..Len(rChanges) : rChanges[k].action = "update_property_type"

(***************************************************************************)
(* network_parser.py: NetworkParser.get_entity_relationships.  self.schemas *)
(* is the sequence of its items in insertion order, each with the endpoint *)
(* key, the request schema and the response schemas in the order of        *)
(* .values(); a relationship list is a sequence of entity names.           *)
(***************************************************************************)
\* The characters of the property names of the model.
NameChars ==
    ("name" :> <<"n", "a", "m", "e">>)
    @@ ("done" :> <<"d", "o", "n", "e">>)
    @@ ("k" :> <<"k">>)
    @@ ("gid" :> <<"g", "i", "d">>)
    @@ ("project_id" :> <<"p", "r", "o", "j", "e", "c", "t", "_", "i", "d">>)
    @@ ("projectId" :> <<"p", "r", "o", "j", "e", "c", "t", "I", "d">>)

\* \w on the characters that occur in the model.
WordChars ==
    Digits \cup {"_", "a", "c", "d", "e", "i", "j", "k", "n", "o", "p", "r", "s", "t",
                 "G", "E", "T", "I"}

\* re.findall(r'/(\w+)', path), from position i on.
RECURSIVE find_entities(_, _)
find_entities(path, i) ==
    LET j == FirstMatch(path, i, WordChars, 1)
    IN  IF j = 0 THEN <<>>
        ELSE << SubSeq(path, j + 1, j + RunLen(path, j + 1, WordChars)) >>
             \o find_entities(path, j + 1 + RunLen(path, j + 1, WordChars))

\* endpoint_key.split(' ', 1)[1] if ' ' in endpoint_key else endpoint_key
PathOfKey(key) ==
    LET spaces == { i \in 1..Len(key) : key[i] = " " }
    IN  IF spaces = {} THEN key
        ELSE SubSeq(key,
                    (CHOOSE i \in spaces : \A j \in spaces : i <= j) + 1,
                    Len(key))

\* str.replace(old, ''): every non-overlapping occurrence from the left.
RECURSIVE Remove(_, _)
Remove(str, old) ==
    IF Len(str) < Len(old) THEN str
    ELSE IF SubSeq(str, 1, Len(old)) = old
    THEN Remove(SubSeq(str, Len(old) + 1, Len(str)), old)
    ELSE << Head(str) >> \o Remove(Tail(str), old)

\* 'id' in prop_name.lower() or 'gid' in prop_name.lower()
LooksLikeId(prop_name) ==
    \/ Contains(Lower(prop_name), <<"i", "d">>)
    \/ Contains(Lower(prop_name), <<"g", "i", "d">>)

\* prop_name.replace('_id', '').replace('Id', '').replace('gid', '')
EntityNameOf(prop_name) ==
    Remove(Remove(Remove(prop_name, <<"_", "i", "d">>), <<"I", "d">>), <<"g", "i", "d">>)

\* The request schema of an endpoint without request samples: {}.
EmptySchema ==
    [type |-> "none", format |-> "", items |-> <<>>, properties |-> NoFields,
     required |-> ReqAbsent, anyOf |-> <<>>]

\* [request_schema] + list(response_schemas.values())
AllSchemas(schema_info) ==
    << schema_info.request >>
    \o [k \in 1..Len(schema_info.responses) |-> schema_info.responses[k].schema]

\* The (schema, property) pairs of an endpoint that extend the list of
\* entity_name.
Extensions(schema_info, entity_name) ==
    { <<k, prop>> \in (1..Len(AllSchemas(schema_info))) \X (DOMAIN NameChars) :
        /\ AllSchemas(schema_info)[k].type = "object"
        /\ prop \in DOMAIN AllSchemas(schema_info)[k].properties
        /\ LooksLikeId(NameChars[prop])
        /\ EntityNameOf(NameChars[prop]) = entity_name
        /\ entity_name # <<>>
        /\ find_entities(PathOfKey(schema_info.key), 1) # <<>> }

RECURSIVE Repeat(_, _)
Repeat(list, n) == IF n = 0 THEN <<>> ELSE list \o Repeat(list, n - 1)

\* relationships[entity_name] after the endpoints of `schemas`, in order.
RECURSIVE RelatedTo(_, _)
RelatedTo(schemas, entity_name) ==
    IF schemas = <<>> THEN <<>>
    ELSE Repeat(find_entities(PathOfKey(Head(schemas).key), 1),
                Cardinality(Extensions(Head(schemas), entity_name)))
         \o RelatedTo(Tail(schemas), entity_name)

get_entity_relationships(schemas) ==
    LET names == { EntityNameOf(NameChars[prop]) : prop \in DOMAIN NameChars }
    IN  [entity_name \in { e \in names : RelatedTo(schemas, e) # <<>> } |->
            RelatedTo(schemas, entity_name)]

(***************************************************************************)
(* Harness for get_entity_relationships: the schemas of one or two         *)
(* endpoints, processed in the order given and in the reverse order.       *)
(***************************************************************************)
EntityKeys ==
    { <<"G", "E", "T", " ", "/", "t", "a", "s", "k", "s">>,
      <<"G", "E", "T", " ", "/", "t", "a", "s", "k", "s", "/", "{", "i", "d", "}">>,
      <<"G", "E", "T", " ", "/", "p", "r", "o", "j", "e", "c", "t", "s", "/",
        "{", "i", "d", "}", "/", "t", "a", "s", "k", "s">> }

EntityBodies ==
    { JObj("name" :> JInt(1)),
      JObj("project_id" :> JInt(1)),
      JObj(("project_id" :> JInt(1)) @@ ("projectId" :> JInt(1))),
      JObj(("gid" :> JInt(1)) @@ ("name" :> JInt(1))) }

EntitySchemas == { infer_schema_from_data(body) : body \in EntityBodies }

EntityInfos ==
    [key : EntityKeys,
     request : {EmptySchema} \cup EntitySchemas,
     responses : { << [status |-> IntKey(200), schema |-> s] >> : s \in EntitySchemas }]

Reversed(list) == [k \in 1..Len(list) |-> list[Len(list) + 1 - k]]

EInit ==
    /\ epc = "input"
    /\ eSchemas \in UNION { { m \in [1..n -> EntityInfos] : DistinctKeys(m) } : n \in 1..2 }
    /\ eRelationships = <<>>
    /\ eReversed = <<>>
    /\ RestIdleE

EDetect ==
    /\ epc = "input"
    /\ epc' = "detected"
    /\ eRelationships' = get_entity_relationships(eSchemas)
    /\ eReversed' = get_entity_relationships(Reversed(eSchemas))
    /\ UNCHANGED eSchemas
    /\ UNCHANGED notE

ENext == EDetect

SpecEntities == EInit /\ [][ENext]_vars

Elements(list) == { list[k] : k \in 1..Len(list) }

\* C23: each entity's related names hold no duplicates, and the result,
\* read as a mapping to sets, is the same whatever the order in which the
\* endpoints are processed.
C23_RelatedNamesAreSets ==
    epc = "detected" =>
        /\ \A e \in DOMAIN eRelationships :
              \A j, k \in 1..Len(eRelationships[e]) :
                  eRelationships[e][j] = eRelationships[e][k] => j = k
        /\ DOMAIN eReversed = DOMAIN eRelationships
        /\ \A e \in DOMAIN eRelationships :
              Elements(eReversed[e]) = Elements(eRelationships[e])

(***************************************************************************)
(* network_parser.py: NetworkParser.infer_schemas and analyze, for the     *)
(* endpoints of a capture without request bodies.  A dict keyed by status  *)
(* is the sequence of its (status, schema) items in insertion order.       *)
(***************************************************************************)
\* The statuses of the samples, in the order status_groups first sees them.
RECURSIVE StatusesOf(_)
StatusesOf(samples) ==
    IF samples = <<>> THEN <<>>
    ELSE LET rest == StatusesOf(SubSeq(samples, 1, Len(samples) - 1))
             status == samples[Len(samples)].status
         IN  IF \E k \in 1..Len(rest) : rest[k] = status THEN rest
             ELSE Append(rest, status)

\* schemas[0] merged with schemas[1:], from the left.
RECURSIVE MergeAll(_)
MergeAll(schemas) ==
    IF Len(schemas) = 1 THEN Ok(schemas[1])
    ELSE MergeInto(MergeAll(SubSeq(schemas, 1, Len(schemas) - 1)), schemas[Len(schemas)])

\* status_groups[status]: the schemas of the samples with that status.
StatusGroup(samples, status) ==
    LET at == SelectSeq([k \in 1..Len(samples) |-> k],
                        LAMBDA k : samples[k].status = status)
    IN  [k \in 1..Len(at) |-> infer_schema_from_data(samples[at[k]].body)]

\* self.schemas[endpoint_key] of one endpoint, or Raised.
SchemaInfo(key, samples) ==
    LET statuses == StatusesOf(samples)
        merged == [k \in 1..Len(statuses) |-> MergeAll(StatusGroup(samples, statuses[k]))]
    IN  IF \E k \in 1..Len(statuses) : merged[k].raised THEN Raised
        ELSE Ok([key |-> key,
                 request |-> EmptySchema,
                 responses |-> [k \in 1..Len(statuses) |->
                                  [status |-> IntKey(statuses[k]),
                                   schema |-> merged[k].val]]])

\* The endpoints of the capture are a sequence of [key, samples].
infer_schemas(captured) ==
    LET infos == [k \in 1..Len(captured) |-> SchemaInfo(captured[k].key, captured[k].samples)]
    IN  IF \E k \in 1..Len(captured) : infos[k].raised THEN Raised
        ELSE Ok([k \in 1..Len(captured) |-> infos[k].val])

\* extract_endpoints: the samples stored under each endpoint key.
extract_endpoints(captured) ==
    [k \in 1..Len(captured) |->
        [key |-> captured[k].key,
         info |-> [methods |-> <<"GET">>, path |-> <<>>,
                   responses |-> ListResponses(captured[k].samples)]]]

analyze(captured) ==
    LET schemas == infer_schemas(captured)
    IN  IF schemas.raised THEN Raised
        ELSE Ok([endpoints |-> extract_endpoints(captured),
                 schemas |-> schemas.val,
                 relationships |-> get_entity_relationships(schemas.val)])

\* json.dump(parsed_data, f): the document written.  The keys of a JSON
\* object are strings, so a status key 200 is written as "200".
DumpSchemaInfo(schema_info) ==
    [schema_info EXCEPT !.responses =
        [k \in 1..Len(schema_info.responses) |->
            [status |-> StrKey(schema_info.responses[k].status.v),
             schema |-> schema_info.responses[k].schema]]]

json_dump(model) ==
    [endpoints |-> JsonRoundTrip(model.endpoints),
     schemas |-> [k \in 1..Len(model.schemas) |-> DumpSchemaInfo(model.schemas[k])],
     relationships |-> model.relationships]

(***************************************************************************)
(* Harness for the persisted model: run_iteration without a                *)
(* parsed_endpoints.json analyses the capture and writes the model; the    *)
(* next iteration loads the file.                                          *)
(***************************************************************************)
PersistStatuses == {200, 404}

\* Two samples with a null field under one status make merge_schemas raise.
PersistBodies == EntityBodies \cup { JObj("name" :> JNull) }

PersistSamples == [status : PersistStatuses, body : PersistBodies]

PersistKeys ==
    { <<"G", "E", "T", " ", "/", "t", "a", "s", "k", "s">>,
      <<"G", "E", "T", " ", "/", "t", "a", "s", "k", "s", "/", "{", "i", "d", "}">> }

SInit ==
    /\ spc = "input"
    /\ \E key \in PersistKeys :
       \E samples \in UNION { [1..n -> PersistSamples] : n \in 1..2 } :
          sCapture = << [key |-> key, samples |-> samples] >>
    /\ sModel = <<>>
    /\ sFile = <<>>
    /\ sLoaded = <<>>
    /\ RestIdleS

\* parsed_data = parser.analyze()
SAnalyze ==
    /\ spc = "input"
    /\ LET r == analyze(sCapture)
       IN  /\ spc' = IF r.raised THEN "raised" ELSE "analyzed"
           /\ sModel' = IF r.raised THEN <<>> ELSE r.val
    /\ UNCHANGED <<sCapture, sFile, sLoaded>>
    /\ UNCHANGED notS

\* json.dump(parsed_data, f, indent=2)
SSave ==
    /\ spc = "analyzed"
    /\ spc' = "saved"
    /\ sFile' = json_dump(sModel)
    /\ UNCHANGED <<sCapture, sModel, sLoaded>>
    /\ UNCHANGED notS

\* parsed_data = json.load(f): the dicts and lists of the document.
SLoad ==
    /\ spc = "saved"
    /\ spc' = "loaded"
    /\ sLoaded' = sFile
    /\ UNCHANGED <<sCapture, sModel, sFile>>
    /\ UNCHANGED notS

SNext == SAnalyze \/ SSave \/ SLoad

SpecPersist == SInit /\ [][SNext]_vars

\* C22: the model loaded from parsed_endpoints.json has the endpoints, the
\* schemas and the relationships of the model analyze returned, the status
\* keys of the response schemas included.
C22_LoadedModelIsTheModel ==
    spc = "loaded" =>
        /\ sLoaded.endpoints = sModel.endpoints
        /\ sLoaded.schemas = sModel.schemas
        /\ sLoaded.relationships = sModel.relationships

(***************************************************************************)
(* fastapi_app/main.py and database.py: the generated CRUD server.  The    *)
(* database is a record of tables, each a function from id to row.  An     *)
(* Optional value is None or Some(v).  A handler is given the validated    *)
(* request and the time of the request, and returns the status of the      *)
(* response and the database after it; a handler that raises leaves the    *)
(* database as it was, since get_db closes the session without a commit.   *)
(* The GET handlers assign nothing and are left out.                       *)
(***************************************************************************)
MaxClock == 4

None == <<>>

Some(x) == << x >>

Tables == {"workspaces", "teams", "users", "projects", "sections", "tasks"}

EmptyDb == [table \in Tables |-> NoFields]

Response(status, db) == [status |-> status, db |-> db]

\* str(uuid.uuid4()): an id no row has.
NewId(now) == ToString(now)

\* db.query(Model).filter(Model.id == id).first() is not None
Exists(db, table, id) == id \in DOMAIN db[table]

\* `if value:` on an Optional[str]
NonEmpty(opt) == opt # None /\ opt[1] # ""

\* db.query(User).filter(User.email == user.email).first()
NoExistingUser(users, email) == FALSE

existing_user(users, email) == \E id \in DOMAIN users : users[id].email = email

\* email = Column(String, unique=True): the INSERT that would break it fails.
UniqueViolation(db, table, row) ==
    table = "users" /\ \E id \in DOMAIN db.users : db.users[id].email = row.email

\* db.add(row); db.commit(); db.refresh(row), with the column defaults.
Commit(db, table, now, row) ==
    IF UniqueViolation(db, table, row) THEN Response(500, db)
    ELSE Response(201,
            [db EXCEPT ![table] =
                (NewId(now) :> (row @@ [created_at |-> now, updated_at |-> now])) @@ @])

create_workspace(db, workspace, now) ==
    Commit(db, "workspaces", now,
           [name |-> workspace.name, description |-> workspace.description,
            activated |-> TRUE])

create_user(db, user, now) ==
    IF existing_user(db.users, user.email) THEN Response(400, db)
    ELSE Commit(db, "users", now, [name |-> user.name, email |-> user.email])

create_team(db, team, now) ==
    IF ~Exists(db, "workspaces", team.workspace_id) THEN Response(404, db)
    ELSE Commit(db, "teams", now, [name |-> team.name, description |-> team.description])

create_project(db, project, now) ==
    IF ~Exists(db, "workspaces", project.workspace_id) THEN Response(404, db)
    ELSE IF NonEmpty(project.team_id) /\ ~Exists(db, "teams", project.team_id[1])
    THEN Response(404, db)
    ELSE Commit(db, "projects", now,
                [name |-> project.name, description |-> project.description,
                 workspace_id |-> project.workspace_id, team_id |-> project.team_id,
                 public |-> project.public, archived |-> FALSE])

create_section_unchecked(db, section, now) ==
    Commit(db, "sections", now,
           [name |-> section.name, project_id |-> section.project_id, position |-> 0])

create_section(db, section, now) ==
    IF ~Exists(db, "projects", section.project_id) THEN Response(404, db)
    ELSE Commit(db, "sections", now,
                [name |-> section.name, project_id |-> section.project_id, position |-> 0])

create_task(db, task, now) ==
    IF ~Exists(db, "projects", task.project_id) THEN Response(404, db)
    ELSE IF NonEmpty(task.section_id) /\ ~Exists(db, "sections", task.section_id[1])
    THEN Response(404, db)
    ELSE IF NonEmpty(task.assignee_id) /\ ~Exists(db, "users", task.assignee_id[1])
    THEN Response(404, db)
    ELSE Commit(db, "tasks", now,
                [name |-> task.name, description |-> task.description,
                 project_id |-> task.project_id, section_id |-> task.section_id,
                 assignee_id |-> task.assignee_id, creator_id |-> None,
                 completed |-> task.completed, due_date |-> None])

\* if update.field is not None: row.field = update.field, for a column
\* that is not nullable and for a nullable one.
SetIf(row, field, opt) == IF opt # None THEN [row EXCEPT ![field] = opt[1]] ELSE row

SetNullableAlways(row, field, opt) == [row EXCEPT ![field] = opt]

SetNullableIf(row, field, opt) == IF opt # None THEN [row EXCEPT ![field] = opt] ELSE row

\* db.commit() of a loaded row: an UPDATE is sent if a column has changed,
\* and it sets updated_at (onupdate=datetime.utcnow).
Flush(db, table, id, row, now) ==
    IF row = db[table][id] THEN Response(200, db)
    ELSE Response(200, [db EXCEPT ![table][id] = [row EXCEPT !.updated_at = now]])

update_project(db, project_id, project_update, now) ==
    IF ~Exists(db, "projects", project_id) THEN Response(404, db)
    ELSE Flush(db, "projects", project_id,
               SetIf(SetIf(SetNullableIf(SetIf(db.projects[project_id],
                                               "name", project_update.name),
                                         "description", project_update.description),
                           "public", project_update.public),
                     "archived", project_update.archived),
               now)

update_task(db, task_id, task_update, now) ==
    IF ~Exists(db, "tasks", task_id) THEN Response(404, db)
    ELSE IF NonEmpty(task_update.assignee_id) /\ ~Exists(db, "users", task_update.assignee_id[1])
    THEN Response(404, db)
    ELSE Flush(db, "tasks", task_id,
               SetNullableIf(SetIf(SetNullableIf(SetIf(db.tasks[task_id],
                                                       "name", task_update.name),
                                                 "description", task_update.description),
                                   "completed", task_update.completed),
                             "assignee_id", task_update.assignee_id),
               now)

(***************************************************************************)
(* The server from an empty database: one action per writing handler, the  *)
(* request drawn from small sets.  dRequest and dStatus are the last       *)
(* request and the status of its response, dBefore the database before it. *)
(***************************************************************************)
Emails == {"x@example.com", "y@example.com"}

Texts == {None, Some("d")}

\* The ids a client names for a row of a table: those of its stored rows
\* and the 99999 of the tests.
RefIds(table) == DOMAIN dDb[table] \cup {"99999"}

OptRefIds(table) == {None} \cup { Some(id) : id \in RefIds(table) }

NoRequest == [op |-> "none", id |-> "", body |-> NoFields]

DInit ==
    /\ dDb = EmptyDb
    /\ dBefore = EmptyDb
    /\ dRequest = NoRequest
    /\ dStatus = 0
    /\ dClock = 0
    /\ RestIdleD

\* The request is answered at time dClock + 1.
Answer(op, id, body, response) ==
    /\ dClock < MaxClock
    /\ dClock' = dClock + 1
    /\ dRequest' = [op |-> op, id |-> id, body |-> body]
    /\ dStatus' = response.status
    /\ dBefore' = dDb
    /\ dDb' = response.db
    /\ UNCHANGED notD

PostWorkspace ==
    \E workspace \in [name : {"a"}, description : {None}] :
        Answer("create_workspace", "", workspace,
               create_workspace(dDb, workspace, dClock + 1))

PostUser ==
    \E user \in [name : {"a"}, email : Emails] :
        Answer("create_user", "", user, create_user(dDb, user, dClock + 1))

PostTeam ==
    \E team \in [name : {"a"}, description : {None}, workspace_id : RefIds("workspaces")] :
        Answer("create_team", "", team, create_team(dDb, team, dClock + 1))

PostProject ==
    \E project \in [name : {"a"}, description : Texts, workspace_id : RefIds("workspaces"),
                    team_id : OptRefIds("teams"), public : {FALSE}] :
        Answer("create_project", "", project, create_project(dDb, project, dClock + 1))

PostSection ==
    \E section \in [name : {"a"}, project_id : RefIds("projects")] :
        Answer("create_section", "", section, create_section(dDb, section, dClock + 1))

PostTask ==
    \E task \in [name : {"a"}, description : Texts, project_id : RefIds("projects"),
                 section_id : OptRefIds("sections"),
                 assignee_id : OptRefIds("users"), completed : {FALSE}] :
        Answer("create_task", "", task, create_task(dDb, task, dClock + 1))

PutProject ==
    \E project_id \in RefIds("projects") :
    \E project_update \in [name : {None, Some("b")}, description : Texts,
                           public : {None, Some(TRUE)}, archived : {None, Some(TRUE)}] :
        Answer("update_project", project_id, project_update,
               update_project(dDb, project_id, project_update, dClock + 1))

PutTask ==
    \E task_id \in RefIds("tasks") :
    \E task_update \in [name : {None, Some("b")}, description : Texts,
                        completed : {None, Some(TRUE)},
                        assignee_id : OptRefIds("users") \cup {Some("")}] :
        Answer("update_task", task_id, task_update,
               update_task(dDb, task_id, task_update, dClock + 1))

DNext ==
    \/ PostWorkspace
    \/ PostUser
    \/ PostTeam
    \/ PostProject
    \/ PostSection
    \/ PostTask
    \/ PutProject
    \/ PutTask

SpecCrud == DInit /\ [][DNext]_vars

\* C24: no two stored users share an email; POST /api/1.0/users with the
\* email of a stored user returns 400 and leaves the users as they were,
\* and with a new email returns 201 and adds exactly one user, with that
\* email.
C24_UsersHaveDistinctEmails ==
    /\ \A u1, u2 \in DOMAIN dDb.users :
          dDb.users[u1].email = dDb.users[u2].email => u1 = u2
    /\ dRequest.op = "create_user" =>
          IF \E u \in DOMAIN dBefore.users : dBefore.users[u].email = dRequest.body.email
          THEN dStatus = 400 /\ dDb.users = dBefore.users
          ELSE /\ dStatus = 201
               /\ \E id \in DOMAIN dDb.users :
                     /\ id \notin DOMAIN dBefore.users
                     /\ DOMAIN dDb.users = DOMAIN dBefore.users \cup {id}
                     /\ dDb.users[id].email = dRequest.body.email
               /\ \A u \in DOMAIN dBefore.users : dDb.users[u] = dBefore.users[u]

C24_Witness ==
    /\ dRequest.op = "create_user"
    /\ dStatus = 400
    /\ Cardinality(DOMAIN dDb.users) = 2

\* The parent a create request names: the workspace of a project, the
\* project of a section or a task.
ParentMissing ==
    \/ dRequest.op = "create_project"
       /\ dRequest.body.workspace_id \notin DOMAIN dBefore.workspaces
    \/ dRequest.op \in {"create_section", "create_task"}
       /\ dRequest.body.project_id \notin DOMAIN dBefore.projects

\* C25: every stored project references a stored workspace, every stored
\* section and task a stored project; a create request for a project, a
\* section or a task that names a parent that does not exist returns 404
\* and stores nothing.
C25_ParentsExist ==
    /\ \A p \in DOMAIN dDb.projects :
          dDb.projects[p].workspace_id \in DOMAIN dDb.workspaces
    /\ \A s \in DOMAIN dDb.sections : dDb.sections[s].project_id \in DOMAIN dDb.projects
    /\ \A t \in DOMAIN dDb.tasks : dDb.tasks[t].project_id \in DOMAIN dDb.projects
    /\ ParentMissing => (dStatus = 404 /\ dDb = dBefore)

C25_Witness ==
    /\ dRequest.op = "create_section"
    /\ ParentMissing
    /\ dDb.sections # NoFields

\* The table a PUT writes, and the value a column holds once a field of
\* the request is stored in it.
PutTable == IF dRequest.op = "update_project" THEN "projects" ELSE "tasks"

StoredAs(field, opt) == IF field \in {"description", "assignee_id"} THEN opt ELSE opt[1]

\* The row as the claim describes it after the PUT: a field supplied with
\* a non-null value holds that value, every other field is as it was.
RowAsClaimed(old, body, fields) ==
    [f \in fields |->
        IF f \in DOMAIN body /\ body[f] # None THEN StoredAs(f, body[f]) ELSE old[f]]

Restricted(row, fields) == [f \in fields |-> row[f]]

\* C26 as stated: PUT on an existing project or task sets exactly the
\* fields supplied with a non-null value and leaves every other field of
\* the entity and every other entity unchanged; PUT on an id that does not
\* exist returns 404 and changes nothing.
C26_PutSetsExactlyTheSuppliedFields ==
    dRequest.op \in {"update_project", "update_task"} =>
        IF dRequest.id \in DOMAIN dBefore[PutTable]
        THEN dDb = [dBefore EXCEPT ![PutTable][dRequest.id] =
                       RowAsClaimed(@, dRequest.body, DOMAIN @)]
        ELSE dStatus = 404 /\ dDb = dBefore

\* A PUT the server rejects: the id is not stored, or the task update
\* names an assignee that is not stored.
PutRejected ==
    \/ dRequest.id \notin DOMAIN dBefore[PutTable]
    \/ /\ dRequest.op = "update_task"
       /\ dRequest.body.assignee_id \notin {None, Some("")}
       /\ dRequest.body.assignee_id[1] \notin DOMAIN dBefore.users

\* C26, amended: a PUT on a stored project or task that names no missing
\* assignee returns 200, sets exactly the fields supplied with a non-null
\* value and leaves every other field of the entity but updated_at, and
\* every other entity, unchanged; a PUT on an id that is not stored, or
\* naming an assignee that is not stored, returns 404 and changes nothing.
C26_PutFrame ==
    dRequest.op \in {"update_project", "update_task"} =>
        IF PutRejected
        THEN dStatus = 404 /\ dDb = dBefore
        ELSE /\ dStatus = 200
             /\ \A table \in Tables \ {PutTable} : dDb[table] = dBefore[table]
             /\ DOMAIN dDb[PutTable] = DOMAIN dBefore[PutTable]
             /\ \A id \in DOMAIN dBefore[PutTable] \ {dRequest.id} :
                   dDb[PutTable][id] = dBefore[PutTable][id]
             /\ LET old == dBefore[PutTable][dRequest.id]
                    fields == DOMAIN old \ {"updated_at"}
                IN  Restricted(dDb[PutTable][dRequest.id], fields)
                        = RowAsClaimed(old, dRequest.body, fields)

C26_Witness ==
    /\ dRequest.op = "update_task"
    /\ dStatus = 200
    /\ dRequest.body.name = None
    /\ dRequest.body.completed = Some(TRUE)
    /\ dBefore.tasks[dRequest.id].description = Some("d")
    /\ dRequest.body.description = None
    /\ dDb.tasks[dRequest.id].completed
    /\ ~dBefore.tasks[dRequest.id].completed


(***************************************************************************)
(* Step 3 of run_iteration: the score of a test case without an expected   *)
(* response.                                                               *)
(***************************************************************************)
\* The test case probed by the step has no expected response.
ProbedWithoutExpected ==
    /\ pc = "testing"
    /\ tc <= Len(test_endpoints)
    /\ tc' = tc + 1
    /\ ~Truthy(Get(expected_responses, test_endpoints[tc].path, JObj(NoFields)))

AnsweredSuccessfully(probe) ==
    ~probe.error /\ probe.status_code >= 200 /\ probe.status_code < 300

\* C27: a probe with no expected response adds the score 1/2 if and only
\* if the server answered with a 2xx status, and adds nothing when it
\* answered with an error status or failed; the quality the iteration
\* records is the mean of the scores, and 0 when there is no score.
C27_PartialCreditOnlyForSuccess ==
    /\ [][ ProbedWithoutExpected =>
              quality_scores' =
                  IF AnsweredSuccessfully(probes'[tc][1])
                  THEN Append(quality_scores, Rat(1, 2))
                  ELSE quality_scores ]_vars
    /\ [][ (pc = "testing" /\ pc' # "testing") =>
              LET recorded == history'[Len(history')].steps["testing"].average_quality
              IN  IF quality_scores = <<>> THEN recorded = Rat(0, 1)
                  ELSE recorded.n * RatSum(quality_scores).d * Len(quality_scores)
                           = RatSum(quality_scores).n * recorded.d ]_vars


(***************************************************************************)
(* Harness for the string formats of infer_schema_from_data: a string, a   *)
(* list of one string, or a dict of one or two strings.                    *)
(***************************************************************************)
\* "", "milk", a date, a date-time, an https URL, a UUID, a date followed
\* by a space, an http URL.
FormatStrings == { JStr(code) : code \in 30..37 }

FormatData ==
    FormatStrings
    \cup { JList(<< s >>) : s \in FormatStrings }
    \cup { JObj("name" :> s) : s \in FormatStrings }
    \cup { JObj(("name" :> s) @@ ("k" :> z)) : s, z \in FormatStrings }

FInit ==
    /\ fpc = "input"
    /\ fData \in FormatData
    /\ fSchema = <<>>
    /\ RestIdleF

FInfer ==
    /\ fpc = "input"
    /\ fpc' = "inferred"
    /\ fSchema' = infer_schema_from_data(fData)
    /\ UNCHANGED fData
    /\ UNCHANGED notF

FNext == FInfer

SpecFormats == FInit /\ [][FNext]_vars

\* The format the claim gives a string: date-time, then date, then uuid,
\* then uri, else none.
ClaimedFormat(chars) ==
    IF MatchesDate(chars) /\ Len(chars) >= 11 /\ chars[11] = "T" THEN "date-time"
    ELSE IF MatchesDate(chars) THEN "date"
    ELSE IF Len(chars) = 36 /\ MatchesUuidAt(chars, 1) THEN "uuid"
    ELSE IF \/ StartsWith(chars, <<"h", "t", "t", "p", ":", "/", "/">>)
            \/ StartsWith(chars, <<"h", "t", "t", "p", "s", ":", "/", "/">>)
    THEN "uri"
    ELSE ""

\* The schema inferred from `data` is a string schema with the claimed
\* format.
AsClaimed(schema, data) ==
    schema.type = "string" /\ schema.format = ClaimedFormat(StrChars(data.v))

\* C28: every string beginning with YYYY-MM-DDT is inferred as date-time,
\* one beginning with YYYY-MM-DD not followed by T as date, a canonical
\* UUID as uuid, an http(s):// string as uri and any other string as a
\* plain string, wherever the string stands in the data.
C28_StringFormatOrder ==
    fpc = "inferred" =>
        CASE fData.t = "str" -> AsClaimed(fSchema, fData)
          [] fData.t = "list" -> AsClaimed(fSchema.items[1], fData.f[1])
          [] OTHER -> \A key \in DOMAIN fData.f :
                          AsClaimed(fSchema.properties[key], fData.f[key])

====
